---- MODULE Spec2Model ----
(***************************************************************************)
(* A model of klippy/gcode.py: GCodeParser, the g-code command interpreter *)
(* of the Klipper host.  Text is modelled as TLA+ strings (sequences of    *)
(* characters), numbers as integers, and the cooperative reactor as a set  *)
(* of greenlets of which at most one runs at a time.                       *)
(***************************************************************************)
EXTENDS Integers, Sequences, FiniteSets, TLC

(***************************************************************************)
(* Text helpers: the str methods the parser uses.                          *)
(***************************************************************************)
Lower == "abcdefghijklmnopqrstuvwxyz"
Upper == "ABCDEFGHIJKLMNOPQRSTUVWXYZ"
Digits == {"0", "1", "2", "3", "4", "5", "6", "7", "8", "9"}
\* The characters str.strip() removes (a line never holds a newline).
Space == {" ", "\t", "\r", "\n"}

Ch(s, i) == SubSeq(s, i, i)

SetMin(S) == CHOOSE m \in S : \A n \in S : m <= n
SetMax(S) == CHOOSE m \in S : \A n \in S : m >= n

\* c.upper() for one character
UpperCh(c) ==
    IF \E i \in 1..Len(Lower) : Ch(Lower, i) = c
    THEN Ch(Upper, CHOOSE i \in 1..Len(Lower) : Ch(Lower, i) = c)
    ELSE c

RECURSIVE upper(_)
upper(s) == IF s = "" THEN "" ELSE UpperCh(Head(s)) \o upper(Tail(s))

strip(s) ==
    LET keep == {i \in 1..Len(s) : Ch(s, i) \notin Space}
    IN  IF keep = {} THEN "" ELSE SubSeq(s, SetMin(keep), SetMax(keep))

\* s.find(c) counted from 1; 0 when c does not occur (Python: -1)
find(s, c) ==
    LET at == {i \in 1..Len(s) : Ch(s, i) = c}
    IN  IF at = {} THEN 0 ELSE SetMin(at)

\* data.split('\n'): the segments between newlines, always at least one
RECURSIVE split_nl(_)
split_nl(data) ==
    LET n == find(data, "\n")
    IN  IF n = 0 THEN <<data>>
        ELSE <<SubSeq(data, 1, n - 1)>> \o split_nl(SubSeq(data, n + 1, Len(data)))

\* '\n'.join-like inverse used to state framing: every line followed by '\n'
RECURSIVE JoinNl(_)
JoinNl(ls) == IF ls = <<>> THEN "" ELSE Head(ls) \o "\n" \o JoinNl(Tail(ls))

(***************************************************************************)
(* args_r = re.compile('([A-Z_]+|[A-Z*])') and args_r.split(...)           *)
(***************************************************************************)
IsKeyCh(c) == c = "_" \/ \E i \in 1..Len(Upper) : Ch(Upper, i) = c
IsKeyStart(c) == IsKeyCh(c) \/ c = "*"

\* first position >= i where args_r matches, 0 if none
NextKey(s, i) ==
    LET at == {j \in i..Len(s) : IsKeyStart(Ch(s, j))}
    IN  IF at = {} THEN 0 ELSE SetMin(at)

\* last position of the match that starts at j
KeyEnd(s, j) ==
    IF Ch(s, j) = "*" THEN j
    ELSE SetMax({e \in j..Len(s) : \A k \in j..e : IsKeyCh(Ch(s, k))})

\* args_r.split(s) from position i: <<text, key, text, key, ..., text>>
RECURSIVE SplitFrom(_, _)
SplitFrom(s, i) ==
    LET j == NextKey(s, i)
    IN  IF j = 0 THEN <<SubSeq(s, i, Len(s))>>
        ELSE <<SubSeq(s, i, j - 1), SubSeq(s, j, KeyEnd(s, j))>>
             \o SplitFrom(s, KeyEnd(s, j) + 1)

args_r_split(s) == SplitFrom(s, 1)

\* float(v) / int(v) of a stripped parameter value.  The model's input
\* alphabet holds no '.', 'e' or 'inf', so the values are the integers.
IsNumber(v) ==
    LET body == IF v # "" /\ Head(v) \in {"-", "+"} THEN Tail(v) ELSE v
    IN  body # "" /\ \A i \in 1..Len(body) : Ch(body, i) \in Digits

DigitVal(c) == CHOOSE d \in 0..9 : Ch("0123456789", d + 1) = c

RECURSIVE NatVal(_)
NatVal(v) ==
    IF v = "" THEN 0
    ELSE 10 * NatVal(SubSeq(v, 1, Len(v) - 1)) + DigitVal(Ch(v, Len(v)))

NumVal(v) ==
    IF Head(v) = "-" THEN 0 - NatVal(Tail(v))
    ELSE IF Head(v) = "+" THEN NatVal(Tail(v))
    ELSE NatVal(v)

(***************************************************************************)
(* Python floats.  A float keeps Mantissa significant bits (53 in the      *)
(* source; fewer here, so that inputs of a few digits reach the rounding); *)
(* float() and every sum or difference round to the nearest float, ties    *)
(* to even.                                                                 *)
(***************************************************************************)
Mantissa == 11

Abs(x) == IF x < 0 THEN 0 - x ELSE x

\* the spacing of the floats around n >= 0, from the spacing u up
RECURSIVE Ulp(_, _)
Ulp(n, u) == IF n < (2 ^ Mantissa) * u THEN u ELSE Ulp(n, 2 * u)

Round(x) ==
    LET n == Abs(x)
        u == Ulp(n, 1)
        q == n \div u
        r == n % u
        m == IF 2 * r > u \/ (2 * r = u /\ q % 2 = 1) THEN (q + 1) * u ELSE q * u
    IN  IF x < 0 THEN 0 - m ELSE m

fadd(a, b) == Round(a + b)
fsub(a, b) == Round(a - b)

\* float(v) of a value that IsNumber
float(v) == Round(NumVal(v))

(***************************************************************************)
(* The verb table and the dispatch registry.                               *)
(***************************************************************************)
all_handlers ==
    <<"G1", "G4", "G20", "G28", "G90", "G91", "G92",
      "M82", "M83", "M18", "M105", "M104", "M109", "M112", "M114", "M115",
      "M140", "M190", "M106", "M107", "M206", "M400",
      "IGNORE", "QUERY_ENDSTOPS", "PID_TUNE", "SET_SERVO",
      "RESTART", "FIRMWARE_RESTART", "ECHO", "STATUS", "HELP">>

\* getattr(self, 'cmd_' + h + '_when_not_ready', False)
when_not_ready(h) ==
    h \in {"M105", "M114", "M115", "IGNORE", "RESTART", "FIRMWARE_RESTART",
           "ECHO", "STATUS", "HELP"}

\* getattr(self, 'cmd_' + h + '_aliases', [])
aliases(h) ==
    CASE h = "G1" -> {"G0"}
      [] h = "M18" -> {"M84"}
      [] h = "IGNORE" -> {"G21", "M110", "M21"}
      [] h = "QUERY_ENDSTOPS" -> {"M119"}
      [] h = "PID_TUNE" -> {"M303"}
      [] OTHER -> {}

\* The registry maps a verb to the name of its handler method (cmd_<name>).
build_handlers(is_ready) ==
    LET handlers == {all_handlers[i] : i \in 1..Len(all_handlers)}
        sel == IF is_ready THEN handlers
               ELSE {h \in handlers : when_not_ready(h)}
        als == UNION {aliases(h) : h \in sel}
    IN  [v \in sel \cup als |->
            IF v \in als THEN CHOOSE h \in sel : v \in aliases(h) ELSE v]

(***************************************************************************)
(* process_commands, lines 93-108: a line to its parameter map.            *)
(***************************************************************************)
\* Variant: the line number is kept among the parts
ParseLine_keepN(rawline) ==
    LET origline == strip(rawline)
        cpos == find(origline, ";")
        line == IF cpos > 0 THEN SubSeq(origline, 1, cpos - 1) ELSE origline
        parts == Tail(args_r_split(upper(line)))
        n == Len(parts) \div 2
        keys == {parts[2 * i - 1] : i \in 1..n}
        p == [k \in keys |->
                strip(parts[2 * SetMax({i \in 1..n : parts[2 * i - 1] = k})])]
    IN  [p |-> p,
         original |-> origline,
         has_parts |-> parts # <<>>,
         command |-> IF parts = <<>> THEN "" ELSE parts[1] \o strip(parts[2])]

ParseLine(rawline) ==
    LET origline == strip(rawline)
        cpos == find(origline, ";")
        line == IF cpos > 0 THEN SubSeq(origline, 1, cpos - 1) ELSE origline
        parts == Tail(args_r_split(upper(line)))
        n == Len(parts) \div 2
        keys == {parts[2 * i - 1] : i \in 1..n}
        p == [k \in keys |->
                strip(parts[2 * SetMax({i \in 1..n : parts[2 * i - 1] = k})])]
        rest == IF parts # <<>> /\ parts[1] = "N"
                THEN SubSeq(parts, 3, Len(parts)) ELSE parts
    IN  [p |-> p,
         original |-> origline,
         has_parts |-> rest # <<>>,
         \* '#command'; "" stands for the key being absent
         command |-> IF rest = <<>> THEN "" ELSE rest[1] \o strip(rest[2])]

(***************************************************************************)
(* The state handlers work on: a record s of the GCodeParser's fields,     *)
(* the collaborators' state (printer configuration, toolhead, heaters) and *)
(* what the current step has written (out), called (calls) and logged.     *)
(* Lengths are in whole units, speed in units per minute (the source keeps *)
(* units per second, F / 60), delays in milliseconds, fan speed in 1/255.  *)
(***************************************************************************)
AxisNames == <<"X", "Y", "Z", "E">>
\* axis2pos, counted from 1
axis2pos(a) == CHOOSE p \in 1..4 : AxisNames[p] = a

Call(s, c) == [s EXCEPT !.calls = Append(@, c)]
Log(s, level, msg) == [s EXCEPT !.log = Append(@, <<level, msg>>)]

\* os.write(self.fd, ...)
Write(s, text) == [s EXCEPT !.out = Append(@, text)]

RECURSIVE JoinWith(_, _)
JoinWith(ls, sep) ==
    IF ls = <<>> THEN ""
    ELSE IF Len(ls) = 1 THEN ls[1]
    ELSE ls[1] \o sep \o JoinWith(Tail(ls), sep)

respond(s, msg) == IF s.is_fileinput THEN s ELSE Write(s, msg \o "\n")

respond_info(s, msg) ==
    LET raw == split_nl(strip(msg))
        lines == [i \in 1..Len(raw) |-> strip(raw[i])]
    IN  respond(Log(s, "debug", msg), "// " \o JoinWith(lines, "\n// "))

respond_error(s, msg) ==
    LET lines == split_nl(strip(msg))
        n == Len(lines)
        s1 == Log(s, "warning", msg)
        s2 == IF n > 1 THEN respond_info(s1, JoinWith(SubSeq(lines, 1, n - 1), "\n"))
              ELSE s1
    IN  respond(s2, "!! " \o strip(lines[n]))

\* Variant: the pending flag is left set
ack_keep(s, msg) ==
    IF ~s.need_ack \/ s.is_fileinput THEN s
    ELSE Write(s, IF msg # "" THEN "ok " \o msg \o "\n" ELSE "ok\n")

ack(s, msg) ==
    IF ~s.need_ack \/ s.is_fileinput THEN s
    ELSE [Write(s, IF msg # "" THEN "ok " \o msg \o "\n" ELSE "ok\n")
            EXCEPT !.need_ack = FALSE]

\* printer.get_state_message()
get_state_message(s) ==
    IF s.is_printer_ready THEN "Printer is ready"
    ELSE "Please retry in a few moments\nPrinter is not ready"

\* extruder.get_printer_extruders(printer): the extruders 1..n of the config
get_printer_extruders(s) == [i \in 1..s.cfg.extruders |-> i]

\* What a handler hands back: the state, the exception it raised ("none",
\* "error": the command error, "other": anything else) with its text, and
\* where it suspended (<<>>: it returned).
Ret(s) == [s |-> s, exc |-> "none", msg |-> "", pause |-> <<>>]
Raise(s, msg) == [s |-> s, exc |-> "error", msg |-> msg, pause |-> <<>>]
RaiseOther(s, what) == [s |-> s, exc |-> "other", msg |-> what, pause |-> <<>>]
Suspend(s, where) == [s |-> s, exc |-> "none", msg |-> "", pause |-> where]

\* get_int / get_float: [ok, v] or [ok |-> FALSE, msg]
get_num(name, prm, has_default, default, is_float) ==
    IF name \in DOMAIN prm.p
    THEN IF IsNumber(prm.p[name])
         THEN [ok |-> TRUE, msg |-> "",
               v |-> IF is_float THEN float(prm.p[name]) ELSE NumVal(prm.p[name])]
         ELSE [ok |-> FALSE, v |-> 0,
               msg |-> "Error on '" \o prm.original \o "': unable to parse " \o prm.p[name]]
    ELSE IF has_default THEN [ok |-> TRUE, v |-> default, msg |-> ""]
    ELSE [ok |-> FALSE, v |-> 0,
          msg |-> "Error on '" \o prm.original \o "': missing " \o name]

get_int(name, prm, has_default, default) ==
    get_num(name, prm, has_default, default, FALSE)
get_float(name, prm, has_default, default) ==
    get_num(name, prm, has_default, default, TRUE)

(***************************************************************************)
(* Collaborators, as the parser sees them.  An oracle o carries what a     *)
(* collaborator answers in this step: o.fault (it raises its error),       *)
(* o.busy (heater.check_busy), o.at (the coordinate homing ends at).       *)
(***************************************************************************)
EndstopMsg == "Move out of range"
HeaterMsg == "Requested temperature out of range"

\* toolhead.get_position()
get_position(s) == s.th_position

\* extruder.get_heater(): the heater of extruder e (1..n)
get_heater(e) == "heater" \o ToString(e - 1)

\* extruder.get_activate_gcode(activate)
get_activate_gcode(s, e, activate) ==
    IF activate THEN s.cfg.activate[e] ELSE s.cfg.deactivate[e]

\* self.heaters[i] for a Python index i (negative: from the end);
\* "IndexError" when out of range, "None" for an absent heater
heater_at(s, i) ==
    LET n == Len(s.heaters)
    IN  IF i >= 0 /\ i < n THEN s.heaters[i + 1]
        ELSE IF i < 0 /\ i >= 0 - n THEN s.heaters[n + i + 1]
        ELSE "IndexError"

HeaterTemp == 20
Fmt1(n) == ToString(n) \o ".0"
Fmt3(n) == ToString(n) \o ".000"

RECURSIVE temp_items(_, _)
temp_items(s, i) ==
    IF i > Len(s.heaters) THEN <<>>
    ELSE (IF s.heaters[i] = "None" THEN <<>>
          ELSE <<(IF i < Len(s.heaters) THEN "T" \o ToString(i - 1) ELSE "B")
                 \o ":" \o Fmt1(HeaterTemp) \o " /"
                 \o Fmt1(s.heater_target[s.heaters[i]])>>)
         \o temp_items(s, i + 1)

get_temp(s) ==
    IF ~s.is_printer_ready THEN "T:0" ELSE JoinWith(temp_items(s, 1), " ")

motor_heater_off(s) ==
    IF ~s.toolhead THEN s
    ELSE LET s1 == Call(Call(s, <<"motor_off">>), <<"get_last_move_time">>)
             hs == {s.heaters[i] : i \in 1..Len(s.heaters)} \ {"None"}
             s2 == [s1 EXCEPT !.heater_target =
                        [h \in DOMAIN @ |-> IF h \in hs THEN 0 ELSE @[h]]]
         IN  IF s.fan THEN [s2 EXCEPT !.fan_speed = 0] ELSE s2

\* Variant: the heater is not waited for
bg_temp_nowait(s, heater, o) == Ret(s)

\* bg_temp up to its first suspension
bg_temp(s, heater, o) ==
    IF s.is_fileinput THEN Ret(s)
    ELSE IF s.is_printer_ready /\ o.busy
         THEN Suspend(respond(Call(s, <<"get_last_move_time">>), get_temp(s)),
                      <<"bg_temp", heater>>)
         ELSE Ret(s)

set_temp(s, prm, is_bed, wait, o) ==
    LET temp == get_float("S", prm, TRUE, 0)
        idx == get_int("T", prm, FALSE, 0)
        heater ==
            IF is_bed THEN heater_at(s, -1)
            ELSE IF "T" \in DOMAIN prm.p
                 THEN IF idx.ok /\ idx.v >= 0 /\ idx.v < Len(s.heaters) - 1
                      THEN heater_at(s, idx.v) ELSE "None"
            ELSE IF s.extruder # 0 THEN get_heater(s.extruder)
            ELSE "None"
    IN  IF ~temp.ok THEN Raise(s, temp.msg)
        ELSE IF ~is_bed /\ "T" \in DOMAIN prm.p /\ ~idx.ok THEN Raise(s, idx.msg)
        ELSE IF heater = "None"
             THEN Ret(IF temp.v > 0 THEN respond_error(s, "Heater not configured") ELSE s)
        ELSE LET s1 == Call(s, <<"get_last_move_time">>)
             IN  IF o.fault THEN Ret(respond_error(s1, HeaterMsg))
                 ELSE LET s2 == [Call(s1, <<"set_temp", heater, temp.v>>)
                                    EXCEPT !.heater_target[heater] = temp.v]
                      IN  IF wait THEN bg_temp(s2, heater, o) ELSE Ret(s2)

set_fan_speed(s, speed) ==
    IF ~s.fan THEN (IF speed # 0 THEN respond_info(s, "Fan not configured") ELSE s)
    ELSE [Call(Call(s, <<"get_last_move_time">>), <<"fan.set_speed", speed>>)
            EXCEPT !.fan_speed = speed]

(***************************************************************************)
(* Individual command handlers (up to their first suspension).             *)
(***************************************************************************)
\* self.speed = 25.0 (units per second, line 31), in units per minute
InitSpeed == 1500

\* Variant: the extruder already active is switched to like any other
cmd_Tn_always(s, prm, o) ==
    LET index == get_int("T", prm, FALSE, 0)
        extruders == get_printer_extruders(s)
    IN  IF ~index.ok THEN Raise(s, index.msg)
        ELSE IF s.extruder = 0 \/ index.v < 0 \/ index.v >= Len(extruders)
             THEN Ret(respond_error(s, "Extruder " \o ToString(index.v)
                                       \o " not configured"))
        ELSE Suspend(s, <<"cmd_Tn", extruders[index.v + 1]>>)

cmd_Tn(s, prm, o) ==
    LET index == get_int("T", prm, FALSE, 0)
        extruders == get_printer_extruders(s)
    IN  IF ~index.ok THEN Raise(s, index.msg)
        ELSE IF s.extruder = 0 \/ index.v < 0 \/ index.v >= Len(extruders)
             THEN Ret(respond_error(s, "Extruder " \o ToString(index.v)
                                       \o " not configured"))
        ELSE IF s.extruder = extruders[index.v + 1] THEN Ret(s)
        ELSE Suspend(s, <<"cmd_Tn", extruders[index.v + 1]>>)

\* Variant: the readiness is not looked at
cmd_default_unguarded(s, prm, o) ==
    IF prm.command = "" THEN Ret(Log(s, "debug", prm.original))
    ELSE Ret(respond_info(s, "Unknown command:\"" \o prm.command \o "\""))

cmd_default(s, prm, o) ==
    IF ~s.is_printer_ready THEN Ret(respond_error(s, get_state_message(s)))
    ELSE IF prm.command = "" THEN Ret(Log(s, "debug", prm.original))
    ELSE IF Head(prm.command) = "T" /\ Len(prm.command) > 1
            /\ Ch(prm.command, 2) \in Digits
         THEN cmd_Tn(s, prm, o)
    ELSE Ret(respond_info(s, "Unknown command:\"" \o prm.command \o "\""))

\* Variant: an absolute value is taken as it is, without the base position
move_target_nobase(s, prm) ==
    [p \in 1..4 |->
        IF AxisNames[p] \notin DOMAIN prm.p THEN s.last_position[p]
        ELSE IF ~s.absolutecoord \/ (p > 3 /\ ~s.absoluteextrude)
             THEN fadd(s.last_position[p], float(prm.p[AxisNames[p]]))
             ELSE float(prm.p[AxisNames[p]])]

\* Variant: the extrusion axis follows its own flag alone
move_target_ownflag(s, prm) ==
    [p \in 1..4 |->
        IF AxisNames[p] \notin DOMAIN prm.p THEN s.last_position[p]
        ELSE IF (p <= 3 /\ ~s.absolutecoord) \/ (p > 3 /\ ~s.absoluteextrude)
             THEN fadd(s.last_position[p], float(prm.p[AxisNames[p]]))
             ELSE fadd(float(prm.p[AxisNames[p]]), s.base_position[p])]

\* base_position and last_position are Python lists: s.base_is_last says
\* they are one list object, so that a write into one shows in the other.
\* self.last_position[...] = ..., element by element, giving pos
write_last(s, pos) ==
    IF s.base_is_last THEN [s EXCEPT !.last_position = pos, !.base_position = pos]
    ELSE [s EXCEPT !.last_position = pos]

\* self.base_position[...] = ..., element by element, giving pos
write_base(s, pos) ==
    IF s.base_is_last THEN [s EXCEPT !.last_position = pos, !.base_position = pos]
    ELSE [s EXCEPT !.base_position = pos]

\* self.last_position = pos: the name is bound to a new list
bind_last(s, pos) == [s EXCEPT !.last_position = pos, !.base_is_last = FALSE]

\* The target of a move: lines 309-318
move_target(s, prm) ==
    [p \in 1..4 |->
        IF AxisNames[p] \notin DOMAIN prm.p THEN s.last_position[p]
        ELSE IF ~s.absolutecoord \/ (p > 3 /\ ~s.absoluteextrude)
             THEN fadd(s.last_position[p], float(prm.p[AxisNames[p]]))
             ELSE fadd(float(prm.p[AxisNames[p]]), s.base_position[p])]

\* Variant: any number is taken as a feed rate
feed_ok_any(v) == IsNumber(v)

\* float(params['F']) / 60. is a speed > 0
feed_ok(v) == IsNumber(v) /\ float(v) > 0

cmd_G1(s, prm, o) ==
    LET given == {p \in 1..4 : AxisNames[p] \in DOMAIN prm.p}
        bad == \/ \E p \in given : ~IsNumber(prm.p[AxisNames[p]])
               \/ "F" \in DOMAIN prm.p /\ ~feed_ok(prm.p["F"])
    IN  IF bad
        THEN Raise(bind_last(Call(s, <<"get_position">>), get_position(s)),
                   "Unable to parse move '" \o prm.original \o "'")
        ELSE LET s1 == [write_last(s, move_target(s, prm))
                          EXCEPT !.speed = IF "F" \in DOMAIN prm.p
                                           THEN float(prm.p["F"]) ELSE @]
                 s2 == Call(s1, <<"move", s1.last_position, s1.speed>>)
             IN  IF o.fault
                 THEN Ret(bind_last(respond_error(Call(s2, <<"get_position">>),
                                                  EndstopMsg),
                                    get_position(s2)))
                 ELSE Ret([s2 EXCEPT !.th_position = s1.last_position])

cmd_G4(s, prm, o) ==
    LET S == get_float("S", prm, FALSE, 0)
        P == get_float("P", prm, TRUE, 0)
        delay == IF "S" \in DOMAIN prm.p THEN S ELSE P
    IN  IF ~delay.ok THEN Raise(s, delay.msg)
        ELSE Suspend(Call(s, <<"dwell", IF "S" \in DOMAIN prm.p
                                         THEN 1000 * S.v ELSE P.v>>),
                     <<"dwell">>)

cmd_G20(s, prm, o) ==
    Ret(respond_error(s, "Machine does not support G20 (inches) command"))

\* homing_state.get_axes(): the axes the homing moved, those asked for or,
\* with kinematics that home all axes together, X, Y and Z
get_axes(axes, o) == IF o.all THEN {1, 2, 3} ELSE axes

\* lines 354-362: home came back, with or without an endstop fault
after_home(s, s1, axes, o) ==
    IF o.fault
    THEN Ret(respond_error(Call(s1, <<"motor_off">>), EndstopMsg))
    ELSE LET homed == get_axes(axes, o)
             newpos == [p \in 1..4 |-> IF p \in homed THEN o.at
                                        ELSE s.th_position[p]]
             s2 == write_last([Call(s1, <<"get_position">>)
                                  EXCEPT !.th_position = newpos],
                              [p \in 1..4 |-> IF p \in homed THEN newpos[p]
                                              ELSE s.last_position[p]])
         IN  Ret(write_base(s2, [p \in 1..4 |->
                    IF p \in homed THEN 0 - s.homing_add[p]
                    ELSE s2.base_position[p]]))

\* Variant: the axes named on the line are not looked at
cmd_G28_all(s, prm, o) ==
    after_home(s, Call(s, <<"home", {1, 2, 3}, s.is_fileinput>>), {1, 2, 3}, o)

cmd_G28(s, prm, o) ==
    LET named == {p \in 1..3 : AxisNames[p] \in DOMAIN prm.p}
        axes == IF named = {} THEN {1, 2, 3} ELSE named
    IN  after_home(s, Call(s, <<"home", axes, s.is_fileinput>>), axes, o)

cmd_G90(s, prm, o) == Ret([s EXCEPT !.absolutecoord = TRUE])
cmd_G91(s, prm, o) == Ret([s EXCEPT !.absolutecoord = FALSE])
cmd_M82(s, prm, o) == Ret([s EXCEPT !.absoluteextrude = TRUE])
cmd_M83(s, prm, o) == Ret([s EXCEPT !.absoluteextrude = FALSE])

\* { p: self.get_float(a, params) for a, p in axis2pos if a in params }
axis_offsets(prm) ==
    LET given == {p \in 1..4 : AxisNames[p] \in DOMAIN prm.p}
    IN  [p \in given |-> get_float(AxisNames[p], prm, FALSE, 0)]

\* Variant: without axes base_position becomes the list of last_position
\* itself, not a copy
cmd_G92_nocopy(s, prm, o) ==
    LET offsets == axis_offsets(prm)
        bad == {p \in DOMAIN offsets : ~offsets[p].ok}
    IN  IF bad # {} THEN Raise(s, offsets[SetMin(bad)].msg)
        ELSE IF DOMAIN offsets = {}
             THEN Ret([s EXCEPT !.base_position = s.last_position,
                                !.base_is_last = TRUE])
        ELSE Ret(write_base(s, [p \in 1..4 |->
                    IF p \in DOMAIN offsets
                    THEN fsub(s.last_position[p], offsets[p].v)
                    ELSE s.base_position[p]]))

cmd_G92(s, prm, o) ==
    LET offsets == axis_offsets(prm)
        bad == {p \in DOMAIN offsets : ~offsets[p].ok}
    IN  IF bad # {} THEN Raise(s, offsets[SetMin(bad)].msg)
        ELSE IF DOMAIN offsets = {}
             THEN Ret([s EXCEPT !.base_position = s.last_position,
                                !.base_is_last = FALSE])
        ELSE Ret(write_base(s, [p \in 1..4 |->
                    IF p \in DOMAIN offsets
                    THEN fsub(s.last_position[p], offsets[p].v)
                    ELSE s.base_position[p]]))

cmd_M18(s, prm, o) == Ret(Call(s, <<"motor_off">>))
cmd_M105(s, prm, o) == Ret(ack(s, get_temp(s)))
cmd_M104(s, prm, o) == set_temp(s, prm, FALSE, FALSE, o)
cmd_M109(s, prm, o) == set_temp(s, prm, FALSE, TRUE, o)
cmd_M112(s, prm, o) ==
    IF s.toolhead THEN Ret(Call(s, <<"force_shutdown">>))
    ELSE RaiseOther(s, "toolhead is None")

cmd_M114(s, prm, o) ==
    IF ~s.toolhead THEN cmd_default(s, prm, o)
    ELSE Ret(respond(Call(s, <<"get_position">>),
            "X:" \o Fmt3(s.last_position[1]) \o " Y:" \o Fmt3(s.last_position[2])
            \o " Z:" \o Fmt3(s.last_position[3]) \o " E:" \o Fmt3(s.last_position[4])
            \o " Count X:" \o Fmt3(s.th_position[1]) \o " Y:" \o Fmt3(s.th_position[2])
            \o " Z:" \o Fmt3(s.th_position[3])))

cmd_M115(s, prm, o) ==
    Ret(ack(s, "FIRMWARE_NAME:Klipper FIRMWARE_VERSION:" \o s.cfg.software_version))
cmd_M140(s, prm, o) == set_temp(s, prm, TRUE, FALSE, o)
cmd_M190(s, prm, o) == set_temp(s, prm, TRUE, TRUE, o)

cmd_M106(s, prm, o) ==
    LET S == get_float("S", prm, TRUE, 255)
    IN  IF ~S.ok THEN Raise(s, S.msg) ELSE Ret(set_fan_speed(s, S.v))
cmd_M107(s, prm, o) == Ret(set_fan_speed(s, 0))

\* Variant: the home offset is set, base_position is left alone
cmd_M206_nobase(s, prm, o) ==
    LET offsets == axis_offsets(prm)
        bad == {p \in DOMAIN offsets : ~offsets[p].ok}
    IN  IF bad # {} THEN Raise(s, offsets[SetMin(bad)].msg)
        ELSE Ret([s EXCEPT !.homing_add = [p \in 1..4 |->
                    IF p \in DOMAIN offsets THEN offsets[p].v ELSE @[p]]])

cmd_M206(s, prm, o) ==
    LET offsets == axis_offsets(prm)
        bad == {p \in DOMAIN offsets : ~offsets[p].ok}
    IN  IF bad # {} THEN Raise(s, offsets[SetMin(bad)].msg)
        ELSE Ret([write_base(s, [p \in 1..4 |->
                    IF p \in DOMAIN offsets
                    THEN fadd(s.base_position[p],
                              fsub(s.homing_add[p], offsets[p].v))
                    ELSE s.base_position[p]])
                  EXCEPT !.homing_add = [p \in 1..4 |->
                    IF p \in DOMAIN offsets THEN offsets[p].v ELSE @[p]]])

cmd_M400(s, prm, o) == Ret(Call(s, <<"wait_moves">>))
cmd_IGNORE(s, prm, o) == Ret(s)

cmd_QUERY_ENDSTOPS(s, prm, o) ==
    IF s.is_fileinput THEN Ret(s)
    ELSE IF o.fault THEN Ret(respond_error(Call(s, <<"query_endstops">>), EndstopMsg))
    ELSE Ret(respond(Call(s, <<"query_endstops">>), "x:open y:open z:open"))

cmd_PID_TUNE(s, prm, o) ==
    LET heater_index == get_int("E", prm, TRUE, 0)
        i == heater_index.v
        unconfigured == i < -1 \/ i >= Len(s.heaters) - 1
                        \/ heater_at(s, i) = "None"
        s1 == IF unconfigured THEN respond_error(s, "Heater not configured") ELSE s
        heater == heater_at(s, i)
        temp == get_float("S", prm, FALSE, 0)
    IN  IF ~heater_index.ok THEN Raise(s, heater_index.msg)
        ELSE IF heater = "IndexError" THEN RaiseOther(s1, "IndexError")
        ELSE IF ~temp.ok THEN Raise(s1, temp.msg)
        ELSE IF heater = "None" THEN RaiseOther(s1, "AttributeError")
        ELSE bg_temp(Call(s1, <<"start_auto_tune", heater, temp.v>>), heater, o)

cmd_ECHO(s, prm, o) == Ret(respond_info(s, prm.original))

cmd_STATUS(s, prm, o) ==
    IF s.is_printer_ready THEN Ret(respond_info(s, get_state_message(s)))
    ELSE Ret(respond_error(s, get_state_message(s)))

\* sorted(self.gcode_handlers) that have a cmd_<name>_help
HelpOrder ==
    <<<<"FIRMWARE_RESTART", "Restart firmware, host, and reload config">>,
      <<"PID_TUNE", "Run PID Tuning">>,
      <<"QUERY_ENDSTOPS", "Report on the status of each endstop">>,
      <<"RESTART", "Reload config file and restart host software">>,
      <<"SET_SERVO", "Set servo angle">>,
      <<"STATUS", "Report the printer status">>>>

Pad10(name) == IF Len(name) >= 10 THEN name
               ELSE name \o SubSeq("          ", 1, 10 - Len(name))

RECURSIVE help_items(_, _)
help_items(s, i) ==
    IF i > Len(HelpOrder) THEN <<>>
    ELSE (IF HelpOrder[i][1] \in DOMAIN s.gcode_handlers
          THEN <<Pad10(HelpOrder[i][1]) \o ": " \o HelpOrder[i][2]>> ELSE <<>>)
         \o help_items(s, i + 1)

cmd_HELP(s, prm, o) ==
    LET cmdhelp == (IF ~s.is_printer_ready
                    THEN <<"Printer is not ready - not all commands available.">>
                    ELSE <<>>)
                   \o <<"Available extended commands:">> \o help_items(s, 1)
    IN  Ret(respond_info(s, JoinWith(cmdhelp, "\n")))

\* The handlers the model runs; the inputs hold no SET_SERVO, RESTART or
\* FIRMWARE_RESTART line.
Modelled(h) == h \notin {"SET_SERVO", "RESTART", "FIRMWARE_RESTART"}

\* handler(params) for the handler named h ("default": cmd_default)
RunHandler(h, s, prm, o) ==
    CASE h = "G1" -> cmd_G1(s, prm, o)
      [] h = "G4" -> cmd_G4(s, prm, o)
      [] h = "G20" -> cmd_G20(s, prm, o)
      [] h = "G28" -> cmd_G28(s, prm, o)
      [] h = "G90" -> cmd_G90(s, prm, o)
      [] h = "G91" -> cmd_G91(s, prm, o)
      [] h = "G92" -> cmd_G92(s, prm, o)
      [] h = "M82" -> cmd_M82(s, prm, o)
      [] h = "M83" -> cmd_M83(s, prm, o)
      [] h = "M18" -> cmd_M18(s, prm, o)
      [] h = "M105" -> cmd_M105(s, prm, o)
      [] h = "M104" -> cmd_M104(s, prm, o)
      [] h = "M109" -> cmd_M109(s, prm, o)
      [] h = "M112" -> cmd_M112(s, prm, o)
      [] h = "M114" -> cmd_M114(s, prm, o)
      [] h = "M115" -> cmd_M115(s, prm, o)
      [] h = "M140" -> cmd_M140(s, prm, o)
      [] h = "M190" -> cmd_M190(s, prm, o)
      [] h = "M106" -> cmd_M106(s, prm, o)
      [] h = "M107" -> cmd_M107(s, prm, o)
      [] h = "M206" -> cmd_M206(s, prm, o)
      [] h = "M400" -> cmd_M400(s, prm, o)
      [] h = "IGNORE" -> cmd_IGNORE(s, prm, o)
      [] h = "QUERY_ENDSTOPS" -> cmd_QUERY_ENDSTOPS(s, prm, o)
      [] h = "PID_TUNE" -> cmd_PID_TUNE(s, prm, o)
      [] h = "ECHO" -> cmd_ECHO(s, prm, o)
      [] h = "STATUS" -> cmd_STATUS(s, prm, o)
      [] h = "HELP" -> cmd_HELP(s, prm, o)
      [] OTHER -> cmd_default(s, prm, o)

(***************************************************************************)
(* Bounds and inputs.                                                      *)
(***************************************************************************)
\* set_printer_ready is called at most this many times
MaxNotify == 2

\* The printer configurations: the number of extruders, whether a bed heater
\* and a fan exist, each extruder's activate / deactivate g-code.
Configs ==
    {[extruders |-> 2, bed |-> TRUE, fan |-> TRUE,
      activate |-> <<"", "G92 E0">>, deactivate |-> <<"G91\nG90", "">>,
      software_version |-> "v0"]}

\* s as packets of one byte each
RECURSIVE Bytes(_)
Bytes(s) == IF s = "" THEN <<>> ELSE <<Head(s)>> \o Bytes(Tail(s))

\* What the channel delivers: the packets the host writes, in order.  A read
\* returns the packets that have arrived, at least one and at most MaxBurst.
MaxBurst == 2

Streams ==
    {<<"M109 S200\nG1 X5\n", " m1", "12 \nG1 Y2\n">>,
     <<"G4 P10\n", "G1 X1\nM112\n", "FOO\n">>,
     <<"M109 S200\n", "G1 X1\nM112\n">>,
     <<"G92 X1 E1\nG1 X5 E2 F600\nG91\nG1 x-2 Y1 E1\n",
       "M82\nG1 E2\nG1 X7 F0\nT5\n">>,
     <<"M83\nG1 X1 E1\nG1 E1\n", "G91\nG1 Z1 E-1\nG1 X\nT0\nT1\nT1\n">>,
     <<"G1 X3\nG92\nG1 X5 Y1\nG92 X1 Y\nG92 y-2 E4\n">>,
     <<"G28 X\nM206 X4096 Y1\nM206 X-1\nM206 X\nG1 X1\n">>,
     <<"M105\nN7 M115 ; id\n">>,
     <<"N10\n\n ; note\nn11 ;\nG1 X1\n">>,
     <<"G1 X\nM303 E2\nPID_TUNE E3 S1\nG1 X1\n">>,
     <<"PID_TUNE E2 S5\nPID_TUNE S200\nG1 X1\n">>,
     <<"G1 X5 Y2 E1\nG92 Y1\nM206 Y3\nG28 y E\nG28\n">>,
     <<"M190 S60\nG1 X1\n", "M105\n">>,
     Bytes("G4\nM112\nG")}

\* Where homing can leave an axis.
HomeAt == {0, 3}

\* What the collaborators can answer to the handler named h
Oracles(h) ==
    [fault : IF h \in {"G1", "G28", "M104", "M109", "M140", "M190",
                       "QUERY_ENDSTOPS", "cmd_Tn"}
             THEN BOOLEAN ELSE {FALSE},
     busy : IF h \in {"M109", "M190", "PID_TUNE", "bg_temp"}
            THEN BOOLEAN ELSE {FALSE},
     at : IF h = "G28" THEN HomeAt ELSE {0},
     all : IF h = "G28" THEN BOOLEAN ELSE {FALSE}]

(***************************************************************************)
(* The reactor.  Every call of process_data is a greenlet: a task with the *)
(* stack of the calls it is in.  A task runs until it suspends in          *)
(* reactor.pause() or returns; only then does the reactor run a read       *)
(* callback or resume a suspended task.                                     *)
(*   A frame is [k, lines, need_ack, prev_need_ack, busy, arg, done]:      *)
(*   "process_data"     lines: the batch; arg: the read returned no data;  *)
(*                      busy: process_commands was called (else: waiting   *)
(*                      on is_processing_data in the loop of line 139)     *)
(*   "process_commands" lines: the lines left, the first one current;      *)
(*                      busy: the current line's handler has not returned; *)
(*                      done: lines finished; arg: called by process_data  *)
(*   "cmd_Tn"           arg: the extruder to switch to; busy: switched     *)
(*   "bg_temp"          arg: the heater waited for                         *)
(*   "dwell"            toolhead.dwell, suspended                          *)
(* A task is [id, stack, waited]: waited says it had to wait on the guard. *)
(***************************************************************************)
VARIABLES
    gc,          \* the parser and its collaborators (the record s above)
    stream,      \* the packets the channel will still deliver
    rx,          \* the bytes read so far
    tasks,       \* the greenlets in process_data, in the order of their reads
    running,     \* the id of the task that holds control, 0: the reactor
    reads,       \* the number of process_data calls so far
    notified,    \* the number of set_printer_ready calls so far
    handed,      \* the lines passed to process_commands by process_data
    dispatched,  \* <<batch, index, batch size>> of every batch line dispatched
    ev           \* the step just taken: what ran, on what, and the state before

vars == <<gc, stream, rx, tasks, running, reads, notified, handed, dispatched, ev>>

Frame(k, lines, need_ack, prev, busy, arg) ==
    [k |-> k, lines |-> lines, need_ack |-> need_ack, prev_need_ack |-> prev,
     busy |-> busy, arg |-> arg, done |-> 0]

Top(t) == t.stack[Len(t.stack)]
Pop(t) == [t EXCEPT !.stack = SubSeq(@, 1, Len(@) - 1)]
Push(t, f) == [t EXCEPT !.stack = Append(@, f)]
SetTop(t, f) == [t EXCEPT !.stack[Len(t.stack)] = f]

TaskIx(id) == CHOOSE i \in 1..Len(tasks) : tasks[i].id = id
Without(ts, i) == SubSeq(ts, 1, i - 1) \o SubSeq(ts, i + 1, Len(ts))

\* A step starts with nothing written, called or logged.
Fresh(s) == [s EXCEPT !.out = <<>>, !.calls = <<>>, !.log = <<>>]

Event(kind, id, line, info) ==
    [kind |-> kind, id |-> id, line |-> line, info |-> info, pre |-> Fresh(gc)]

\* printer.request_exit(): the reactor's loop ends once control returns to it
request_exit(s) == [s EXCEPT !.exit = TRUE]

(***************************************************************************)
(* set_printer_ready                                                       *)
(***************************************************************************)
\* Variant: the registry is not rebuilt when the readiness changes
set_printer_ready_norebuild(s, is_ready) ==
    IF s.is_printer_ready = is_ready THEN s
    ELSE IF ~is_ready
    THEN (IF s.is_fileinput THEN request_exit([s EXCEPT !.is_printer_ready = FALSE])
          ELSE [s EXCEPT !.is_printer_ready = FALSE])
    ELSE [s EXCEPT !.is_printer_ready = TRUE, !.toolhead = TRUE,
                   !.fd_handle = IF s.is_fileinput /\ ~@ THEN TRUE ELSE @]

set_printer_ready(s, is_ready) ==
    IF s.is_printer_ready = is_ready THEN s
    ELSE LET s1 == [s EXCEPT !.is_printer_ready = is_ready,
                             !.gcode_handlers = build_handlers(is_ready)]
             extruders == get_printer_extruders(s)
         IN  IF ~is_ready
             THEN (IF s.is_fileinput THEN request_exit(s1) ELSE s1)
             ELSE LET s2 == [s1 EXCEPT !.toolhead = TRUE]
                      s3 == IF extruders # <<>>
                            THEN [Call(s2, <<"set_extruder", extruders[1]>>)
                                    EXCEPT !.extruder = extruders[1],
                                           !.th_extruder = extruders[1]]
                            ELSE s2
                  IN  [s3 EXCEPT
                        !.heaters = [i \in 1..Len(extruders) |-> get_heater(extruders[i])]
                                    \o <<IF s.cfg.bed THEN "heater_bed" ELSE "None">>,
                        !.fan = s.cfg.fan,
                        !.fd_handle = IF s.is_fileinput /\ ~@ THEN TRUE ELSE @]

\* The printer notifies readiness from the reactor; a shutdown may also come
\* from a background thread, whatever the reactor is running.
SetPrinterReady ==
    \E is_ready \in BOOLEAN :
        /\ notified < MaxNotify
        /\ is_ready => running = 0 /\ ~gc.exit
        /\ gc' = set_printer_ready(Fresh(gc), is_ready)
        /\ notified' = notified + 1
        /\ ev' = Event("set_printer_ready", 0, "", is_ready)
        /\ UNCHANGED <<stream, rx, tasks, running, reads, handed, dispatched>>

(***************************************************************************)
(* process_data: a read callback up to its first suspension                *)
(***************************************************************************)
\* Variant: the fragment carried over is not put before the first line
frame_lines_nocarry(partial_input, data) ==
    LET lines == split_nl(data)
    IN  [lines |-> SubSeq(lines, 1, Len(lines) - 1),
         partial_input |-> lines[Len(lines)]]

\* lines 129-131: the complete lines of a read and the fragment carried over
frame_lines(partial_input, data) ==
    LET segs == split_nl(data)
        lines == <<partial_input \o segs[1]>> \o Tail(segs)
    IN  [lines |-> SubSeq(lines, 1, Len(lines) - 1),
         partial_input |-> lines[Len(lines)]]

\* Variant: the line is compared as read, neither trimmed nor upper-cased
is_M112_verbatim(line) == line = "M112"

\* line 137
is_M112(line) == upper(strip(line)) = "M112"

\* Variant: only an interactive session waits for the batch in progress
must_wait_interactive(s) == s.is_processing_data /\ ~s.is_fileinput

\* line 132: a batch is being processed, so this one has to wait
must_wait(s) == s.is_processing_data

\* Variant: the waiting loop ends at its first pause
keep_waiting_never(s) == FALSE

\* line 139: the waiting loop goes on
keep_waiting(s) == s.is_processing_data

\* lines 142-143: take the guard and call process_commands(lines)
start_commands(s, id, lines, eof, waited) ==
    [id |-> id, waited |-> waited,
     stack |-> <<Frame("process_data", lines, FALSE, FALSE, TRUE, eof),
                 Frame("process_commands", lines, TRUE, s.need_ack, FALSE, TRUE)>>]

Read ==
    /\ running = 0
    /\ gc.fd_handle
    /\ ~gc.exit /\ ~gc.uncaught
    /\ \E n \in 0..MaxBurst :
        /\ n <= Len(stream)
        /\ n = 0 => gc.is_fileinput /\ stream = <<>>
        /\ LET data == JoinWith(SubSeq(stream, 1, n), "")
               fr == frame_lines(gc.partial_input, data)
               lines == fr.lines
               id == reads + 1
               s1 == [Fresh(gc) EXCEPT !.bytes_read = @ + Len(data),
                                       !.partial_input = fr.partial_input]
               oob == ~gc.is_fileinput /\ lines # <<>> /\ is_M112(lines[1])
               m112 == cmd_M112(s1, <<>>, <<>>)
           IN  /\ stream' = SubSeq(stream, n + 1, Len(stream))
               /\ rx' = rx \o data
               /\ reads' = id
               /\ ev' = Event("read", id, "", [data |-> data, lines |-> lines])
               /\ UNCHANGED <<notified, dispatched>>
               /\ IF must_wait(gc)
                  THEN IF ~gc.is_fileinput /\ lines = <<>>
                       THEN /\ gc' = s1
                            /\ UNCHANGED <<tasks, running, handed>>
                       ELSE IF oob /\ m112.exc # "none"
                       THEN /\ gc' = [s1 EXCEPT !.fd_handle = FALSE, !.uncaught = TRUE]
                            /\ UNCHANGED <<tasks, running, handed>>
                       ELSE /\ gc' = [(IF oob THEN m112.s ELSE s1)
                                        EXCEPT !.fd_handle = FALSE]
                            /\ tasks' = Append(tasks,
                                 [id |-> id, waited |-> TRUE,
                                  stack |-> <<Frame("process_data", lines, FALSE,
                                                    FALSE, FALSE, data = "")>>])
                            /\ UNCHANGED <<running, handed>>
                  ELSE /\ gc' = [s1 EXCEPT !.is_processing_data = TRUE]
                       /\ tasks' = Append(tasks, start_commands(s1, id, lines, data = "", FALSE))
                       /\ running' = id
                       /\ handed' = handed \o lines

\* Variant: the read source is left unregistered
end_wait_noregister(s) == [s EXCEPT !.is_processing_data = TRUE]

\* lines 141-142: the wait is over, the read source is registered again and
\* the guard taken
end_wait(s) == [s EXCEPT !.fd_handle = TRUE, !.is_processing_data = TRUE]

\* lines 139-143: the loop of the waiting task finds the guard clear
Wake ==
    /\ running = 0
    /\ ~gc.exit /\ ~gc.uncaught
    /\ \E i \in 1..Len(tasks) :
        LET t == tasks[i]
            f == Top(t)
        IN  /\ f.k = "process_data" /\ ~f.busy
            /\ ~keep_waiting(gc)
            /\ gc' = end_wait(Fresh(gc))
            /\ tasks' = [tasks EXCEPT ![i] = start_commands(gc, t.id, f.lines, f.arg, TRUE)]
            /\ running' = t.id
            /\ handed' = handed \o f.lines
            /\ ev' = Event("wake", t.id, "", f.lines)
            /\ UNCHANGED <<stream, rx, reads, notified, dispatched>>

(***************************************************************************)
(* process_commands: one line of the loop, lines 91-123                    *)
(***************************************************************************)
\* Variant: the registry of a Ready printer is asked, whatever the readiness
lookup_ready(s, cmd) ==
    IF cmd \in DOMAIN build_handlers(TRUE) THEN build_handlers(TRUE)[cmd]
    ELSE "default"

\* self.gcode_handlers.get(cmd, self.cmd_default)
lookup(s, cmd) ==
    IF cmd \in DOMAIN s.gcode_handlers THEN s.gcode_handlers[cmd] ELSE "default"

\* Lines 112-123 once handler(params) has come back with r: the state after
\* and how the loop goes on ("continue", "break", "suspend": the handler has
\* not returned yet, "raise": an exception leaves process_commands).
after_handler(prm, r) ==
    IF r.pause # <<>>
    THEN [s |-> r.s, flow |-> "suspend", pause |-> r.pause]
    ELSE IF r.exc = "error"
    THEN [s |-> ack(respond_error(r.s, r.msg), ""),
          flow |-> "continue", pause |-> <<>>]
    ELSE IF r.exc = "other"
    THEN IF ~r.s.toolhead
         THEN [s |-> [Log(r.s, "exception", "Exception in command handler")
                        EXCEPT !.uncaught = TRUE],
               flow |-> "raise", pause |-> <<>>]
         ELSE IF r.s.is_fileinput
         THEN [s |-> request_exit(respond_error(
                        Call(Log(r.s, "exception", "Exception in command handler"),
                             <<"force_shutdown">>),
                        "Internal error on command:\"" \o prm.command \o "\"")),
               flow |-> "break", pause |-> <<>>]
         ELSE [s |-> ack(respond_error(
                        Call(Log(r.s, "exception", "Exception in command handler"),
                             <<"force_shutdown">>),
                        "Internal error on command:\"" \o prm.command \o "\""), ""),
               flow |-> "continue", pause |-> <<>>]
    ELSE [s |-> ack(r.s, ""), flow |-> "continue", pause |-> <<>>]

\* One pass of the loop body on a parsed line, lines 102-123
process_line(s, need_ack, prm, o) ==
    IF ~prm.has_parts
    THEN [s |-> cmd_default(s, prm, o).s, flow |-> "continue", pause |-> <<>>]
    ELSE after_handler(prm,
            RunHandler(lookup(s, prm.command),
                       [s EXCEPT !.need_ack = need_ack], prm, o))

\* The frames a suspended handler leaves on the stack
handler_frames(s, pause) ==
    IF pause[1] = "cmd_Tn"
    THEN <<Frame("cmd_Tn", <<>>, FALSE, FALSE, FALSE, pause[2]),
           Frame("process_commands",
                 split_nl(get_activate_gcode(s, s.extruder, FALSE)),
                 FALSE, s.need_ack, FALSE, FALSE)>>
    ELSE IF pause[1] = "bg_temp"
    THEN <<Frame("bg_temp", <<>>, FALSE, FALSE, FALSE, pause[2])>>
    ELSE <<Frame("dwell", <<>>, FALSE, FALSE, FALSE, FALSE)>>

\* The task's stack and who runs once the line's pass r is over
after_line(t, f, r) ==
    LET next == [f EXCEPT !.lines = Tail(@), !.done = @ + 1]
    IN  CASE r.flow = "continue" -> SetTop(t, next)
          [] r.flow = "break" -> SetTop(t, [next EXCEPT !.lines = <<>>])
          [] r.flow = "suspend" ->
                [t EXCEPT !.stack = SubSeq(@, 1, Len(@) - 1)
                                    \o <<[f EXCEPT !.busy = TRUE]>>
                                    \o handler_frames(r.s, r.pause)]
          [] OTHER -> t

DispatchLine(i, t, f, prm, h, o, r) ==
    /\ gc' = r.s
    /\ ev' = Event("dispatch", t.id, Head(f.lines),
                   [prm |-> prm, h |-> h, o |-> o, flow |-> r.flow, batch |-> f.arg])
    /\ dispatched' = IF f.arg
                     THEN Append(dispatched, <<t.id, f.done + 1, f.done + Len(f.lines)>>)
                     ELSE dispatched
    /\ tasks' = IF r.flow = "raise" THEN Without(tasks, i)
                ELSE [tasks EXCEPT ![i] = after_line(t, f, r)]
    /\ running' = IF r.flow = "raise"
                     \/ (r.flow = "suspend" /\ r.pause[1] # "cmd_Tn")
                  THEN 0 ELSE running

\* The running task dispatches the next line of its process_commands.
Dispatch ==
    /\ running # 0
    /\ Top(tasks[TaskIx(running)]).k = "process_commands"
    /\ ~Top(tasks[TaskIx(running)]).busy
    /\ Top(tasks[TaskIx(running)]).lines # <<>>
    /\ Modelled(lookup(gc, ParseLine(Head(Top(tasks[TaskIx(running)]).lines)).command))
    /\ \E prm \in {ParseLine(Head(Top(tasks[TaskIx(running)]).lines))} :
       \E o \in Oracles(lookup(gc, prm.command)) :
          DispatchLine(TaskIx(running), tasks[TaskIx(running)],
                       Top(tasks[TaskIx(running)]), prm, lookup(gc, prm.command), o,
                       process_line(Fresh(gc), Top(tasks[TaskIx(running)]).need_ack,
                                    prm, o))
    /\ UNCHANGED <<stream, rx, reads, notified, handed>>

\* A handler that had suspended has returned: line 123, self.ack()
Return ==
    /\ running # 0
    /\ LET i == TaskIx(running)
           t == tasks[i]
           f == Top(t)
       IN  /\ f.k = "process_commands" /\ f.busy
           /\ gc' = ack(Fresh(gc), "")
           /\ tasks' = [tasks EXCEPT ![i] =
                 SetTop(t, [f EXCEPT !.lines = Tail(@), !.done = @ + 1,
                                     !.busy = FALSE])]
           /\ ev' = Event("return", t.id, Head(f.lines), f.arg)
           /\ UNCHANGED <<stream, rx, running, reads, notified, handed, dispatched>>

\* The loop is over: line 124, then back in the caller
EndCommands ==
    /\ running # 0
    /\ LET i == TaskIx(running)
           t == tasks[i]
           f == Top(t)
       IN  /\ f.k = "process_commands" /\ ~f.busy /\ f.lines = <<>>
           /\ gc' = [Fresh(gc) EXCEPT !.need_ack = f.prev_need_ack]
           /\ tasks' = [tasks EXCEPT ![i] = Pop(t)]
           /\ ev' = Event("end_commands", t.id, "", f.arg)
           /\ UNCHANGED <<stream, rx, running, reads, notified, handed, dispatched>>

\* process_data after process_commands: lines 144-149
end_data(s, eof) ==
    LET s1 == IF eof /\ s.is_fileinput
              THEN LET a == motor_heater_off(s)
                   IN  request_exit(IF a.toolhead THEN Call(a, <<"wait_moves">>) ELSE a)
              ELSE s
    IN  [s1 EXCEPT !.is_processing_data = FALSE]

EndData ==
    /\ running # 0
    /\ LET i == TaskIx(running)
           t == tasks[i]
           f == Top(t)
       IN  /\ f.k = "process_data" /\ f.busy
           /\ gc' = end_data(Fresh(gc), f.arg)
           /\ tasks' = Without(tasks, i)
           /\ running' = 0
           /\ ev' = Event("end_data", t.id, "", f.lines)
           /\ UNCHANGED <<stream, rx, reads, notified, handed, dispatched>>

(***************************************************************************)
(* cmd_Tn after the deactivate g-code ran: lines 290-298                   *)
(***************************************************************************)
\* lines 290-296: switch the toolhead's extruder; ok: no endstop fault
\* Variant: the extruder reference is updated though the switch failed
tn_switch_anyway(s, e, o) ==
    LET s1 == Call(s, <<"set_extruder", e>>)
    IN  IF o.fault THEN [s |-> [respond_error(s1, EndstopMsg) EXCEPT !.extruder = e],
                         ok |-> FALSE]
        ELSE LET pos == [s.th_position EXCEPT ![4] = o.at]
             IN  [s |-> bind_last([Call(s1, <<"get_position">>) EXCEPT
                                     !.th_extruder = e, !.th_position = pos,
                                     !.extruder = e], pos),
                  ok |-> TRUE]

tn_switch(s, e, o) ==
    LET s1 == Call(s, <<"set_extruder", e>>)
    IN  IF o.fault THEN [s |-> respond_error(s1, EndstopMsg), ok |-> FALSE]
        ELSE LET pos == [s.th_position EXCEPT ![4] = o.at]
             IN  [s |-> bind_last([Call(s1, <<"get_position">>) EXCEPT
                                     !.th_extruder = e, !.th_position = pos,
                                     !.extruder = e], pos),
                  ok |-> TRUE]

TnStep ==
    /\ running # 0
    /\ LET i == TaskIx(running)
           t == tasks[i]
           f == Top(t)
       IN  /\ f.k = "cmd_Tn"
           /\ \E o \in Oracles("cmd_Tn") :
                LET r == tn_switch(Fresh(gc), f.arg, o)
                IN  IF f.busy
                    THEN /\ gc' = Fresh(gc)
                         /\ tasks' = [tasks EXCEPT ![i] = Pop(t)]
                         /\ ev' = Event("cmd_Tn", t.id, "", "done")
                    ELSE /\ gc' = r.s
                         /\ ev' = Event("cmd_Tn", t.id, "", [e |-> f.arg, ok |-> r.ok])
                         /\ tasks' = [tasks EXCEPT ![i] =
                              IF r.ok
                              THEN Push(SetTop(t, [f EXCEPT !.busy = TRUE]),
                                        Frame("process_commands",
                                              split_nl(get_activate_gcode(r.s, f.arg, TRUE)),
                                              FALSE, r.s.need_ack, FALSE, FALSE))
                              ELSE Pop(t)]
           /\ UNCHANGED <<stream, rx, running, reads, notified, handed, dispatched>>

(***************************************************************************)
(* reactor.pause() returns                                                 *)
(***************************************************************************)
\* bg_temp, lines 230-233: the loop's test after a pause
ResumeBgTemp ==
    /\ running = 0
    /\ ~gc.exit /\ ~gc.uncaught
    /\ \E i \in 1..Len(tasks) : \E o \in Oracles("bg_temp") :
        LET t == tasks[i]
            f == Top(t)
            r == bg_temp(Fresh(gc), f.arg, o)
        IN  /\ f.k = "bg_temp"
            /\ gc' = r.s
            /\ IF r.pause # <<>>
               THEN UNCHANGED <<tasks, running>>
               ELSE /\ tasks' = [tasks EXCEPT ![i] = Pop(t)]
                    /\ running' = t.id
            /\ ev' = Event("bg_temp", t.id, "", [o |-> o, waits |-> r.pause # <<>>])
            /\ UNCHANGED <<stream, rx, reads, notified, handed, dispatched>>

\* toolhead.dwell returns
ResumeDwell ==
    /\ running = 0
    /\ ~gc.exit /\ ~gc.uncaught
    /\ \E i \in 1..Len(tasks) :
        LET t == tasks[i]
        IN  /\ Top(t).k = "dwell"
            /\ gc' = Fresh(gc)
            /\ tasks' = [tasks EXCEPT ![i] = Pop(t)]
            /\ running' = t.id
            /\ ev' = Event("dwell", t.id, "", "")
            /\ UNCHANGED <<stream, rx, reads, notified, handed, dispatched>>

(***************************************************************************)
(* The specification                                                       *)
(***************************************************************************)
Zero4 == <<0, 0, 0, 0>>

\* __init__, lines 12-36, and the collaborators at start
InitGc(is_fileinput, cfg) ==
    [is_processing_data |-> FALSE,
     is_fileinput |-> is_fileinput,
     fd_handle |-> ~is_fileinput,
     partial_input |-> "",
     bytes_read |-> 0,
     gcode_handlers |-> build_handlers(FALSE),
     is_printer_ready |-> FALSE,
     need_ack |-> FALSE,
     toolhead |-> FALSE, fan |-> FALSE, extruder |-> 0,
     heaters |-> <<>>,
     speed |-> InitSpeed,
     absolutecoord |-> TRUE, absoluteextrude |-> TRUE,
     base_position |-> Zero4, last_position |-> Zero4, homing_add |-> Zero4,
     base_is_last |-> FALSE,
     cfg |-> cfg,
     th_position |-> Zero4, th_extruder |-> 0,
     heater_target |-> [h \in {"heater0", "heater1", "heater_bed"} |-> 0],
     fan_speed |-> 0,
     exit |-> FALSE, uncaught |-> FALSE,
     out |-> <<>>, calls |-> <<>>, log |-> <<>>]

Init ==
    /\ \E is_fileinput \in BOOLEAN, cfg \in Configs :
            gc = InitGc(is_fileinput, cfg)
    /\ stream \in Streams
    /\ rx = ""
    /\ tasks = <<>>
    /\ running = 0
    /\ reads = 0
    /\ notified = 0
    /\ handed = <<>>
    /\ dispatched = <<>>
    /\ ev = [kind |-> "init", id |-> 0, line |-> "", info |-> "", pre |-> <<>>]

Next ==
    \/ SetPrinterReady
    \/ Read
    \/ Wake
    \/ Dispatch
    \/ Return
    \/ EndCommands
    \/ EndData
    \/ TnStep
    \/ ResumeBgTemp
    \/ ResumeDwell

Spec == Init /\ [][Next]_vars


(***************************************************************************)
(* Vocabulary of the properties: what the step just taken (ev) was.        *)
(***************************************************************************)
Range(f) == {f[i] : i \in DOMAIN f}

\* The task of read id is in the loop of line 139
IsWaiting(id) ==
    \E i \in 1..Len(tasks) :
        tasks[i].id = id /\ Top(tasks[i]).k = "process_data" /\ ~Top(tasks[i]).busy

\* A batch read before read id has called process_commands and not finished
InFlightBefore(id) ==
    \E i \in 1..Len(tasks) : tasks[i].id < id /\ tasks[i].stack[1].busy

\* The step was a read that found a batch in progress
ReadWhileBusy == ev.kind = "read" /\ ev.pre.is_processing_data

\* The first complete line in the bytes of the read (the fragment carried
\* over before them), trimmed and upper-cased; "none" without a newline
FirstLineText ==
    LET txt == ev.pre.partial_input \o ev.info.data
        n == find(txt, "\n")
    IN  IF n = 0 THEN "none" ELSE upper(strip(SubSeq(txt, 1, n - 1)))

AnyLineM112 ==
    \E i \in 1..Len(ev.info.lines) : upper(strip(ev.info.lines[i])) = "M112"

ForcedShutdown == <<"force_shutdown">> \in Range(gc.calls)

\* C1: in interactive mode, when a read arrives while a batch is in progress
\* and its first complete line (carried fragment included, trimmed and
\* upper-cased) is M112, force_shutdown is called in that read: the batch of
\* the read is only then waiting, and the batch in flight has not finished.
C1_FirstLineM112 ==
    (ReadWhileBusy /\ ~ev.pre.is_fileinput /\ FirstLineText = "M112")
    => /\ ForcedShutdown
       /\ ~gc.uncaught
       /\ IsWaiting(ev.id)
       /\ gc.is_processing_data
       /\ InFlightBefore(ev.id)

\* C1 happens: the M112 came with a carried fragment, in lower case and padded
C1_Witness ==
    /\ ReadWhileBusy /\ ~ev.pre.is_fileinput /\ FirstLineText = "M112"
    /\ ev.pre.partial_input # ""
    /\ ev.info.lines[1] # "M112"
    /\ ForcedShutdown

\* C2: in interactive mode an M112 line read while another batch is in
\* progress forces the shutdown in that read, before the batch in flight
\* finishes, whatever its position in the batch read.
C2_AnyPosition ==
    (ReadWhileBusy /\ ~ev.pre.is_fileinput /\ AnyLineM112) => ForcedShutdown

\* C3: in interactive mode the lines of the batches are dispatched one batch
\* after the other, in the order of the reads, each batch from its first line
\* to its last before the next one starts; the k-th line dispatched is the
\* k-th line handed over.  A read calls no handler but the out-of-band M112.
C3_InOrder ==
    ~gc.is_fileinput
    => /\ \A k \in 1..Len(dispatched) :
            IF k = 1 THEN dispatched[k][2] = 1
            ELSE \/ /\ dispatched[k][1] = dispatched[k - 1][1]
                    /\ dispatched[k][2] = dispatched[k - 1][2] + 1
                 \/ /\ dispatched[k][1] > dispatched[k - 1][1]
                    /\ dispatched[k][2] = 1
                    /\ dispatched[k - 1][2] = dispatched[k - 1][3]
       /\ Len(dispatched) <= Len(handed)
       /\ (ev.kind = "dispatch" /\ ev.info.batch)
          => ev.line = handed[Len(dispatched)]
       /\ (ev.kind = "read" /\ gc.calls # <<>>)
          => gc.calls = <<<<"force_shutdown">>>> /\ FirstLineText = "M112"

\* C3 happens: a line of a batch that had to wait is dispatched after the
\* lines of the batch read before it
C3_Witness ==
    /\ ~gc.is_fileinput
    /\ ev.kind = "dispatch" /\ ev.info.batch
    /\ \E i \in 1..Len(tasks) : tasks[i].id = ev.id /\ tasks[i].waited
    /\ Len(dispatched) >= 3
    /\ \E k \in 1..Len(dispatched) : dispatched[k][1] < ev.id /\ dispatched[k][3] >= 2

\* C4 as stated: in replay mode a batch read while another one is in
\* progress goes to process_commands without waiting for the guard.
C4_ReplayNoWait ==
    (ReadWhileBusy /\ ev.pre.is_fileinput)
    => \E i \in 1..Len(tasks) : tasks[i].id = ev.id /\ tasks[i].stack[1].busy

\* C4: in replay mode too a batch read while another one is in progress
\* waits: the read source is unregistered, nothing is called, and the batch
\* goes to process_commands only once the guard is clear.  Unlike in an
\* interactive session a read without a complete line waits as well, and no
\* M112 is handled out of band.
C4_ReplayWaits ==
    /\ (ReadWhileBusy /\ ev.pre.is_fileinput)
       => /\ IsWaiting(ev.id)
          /\ ~gc.fd_handle
          /\ gc.calls = <<>>
          /\ running = 0
          /\ gc.is_processing_data
    /\ (ev.kind = "wake" /\ ev.pre.is_fileinput) => ~ev.pre.is_processing_data

\* C4 happens: a replay batch with lines is left waiting
C4_Witness ==
    /\ ReadWhileBusy /\ ev.pre.is_fileinput
    /\ ev.info.lines # <<>>
    /\ IsWaiting(ev.id)

\* The lines of the batches that wait on the guard, in the order of the reads
RECURSIVE PendingFrom(_)
PendingFrom(i) ==
    IF i > Len(tasks) THEN <<>>
    ELSE (IF IsWaiting(tasks[i].id) THEN Top(tasks[i]).lines ELSE <<>>)
         \o PendingFrom(i + 1)

\* C5: however the stream is cut into reads, the lines handed to
\* process_commands (then the lines of a batch still waiting), each followed
\* by a newline, followed by the fragment carried over, are the bytes read;
\* also after a read without a complete line while a batch is in progress.
C5_Framing ==
    /\ JoinNl(handed \o PendingFrom(1)) \o gc.partial_input = rx
    /\ gc.bytes_read = Len(rx)
    /\ \A i \in 1..Len(handed) : find(handed[i], "\n") = 0

\* C5 happens: a read without a complete line lengthens the carried fragment
\* while a batch is in progress
C5_Witness ==
    /\ ReadWhileBusy /\ ~ev.pre.is_fileinput
    /\ ev.info.lines = <<>> /\ ev.info.data # ""
    /\ ev.pre.partial_input # ""
    /\ gc.partial_input = ev.pre.partial_input \o ev.info.data
    /\ handed # <<>>

NotReadyRegistry ==
    [v \in {"M105", "M114", "M115", "IGNORE", "G21", "M110", "M21", "RESTART",
            "FIRMWARE_RESTART", "ECHO", "STATUS", "HELP"} |->
        IF v \in {"G21", "M110", "M21"} THEN "IGNORE" ELSE v]

ReadyRegistry ==
    [v \in {"G1", "G0", "G4", "G20", "G28", "G90", "G91", "G92", "M82", "M83",
            "M18", "M84", "M105", "M104", "M109", "M112", "M114", "M115",
            "M140", "M190", "M106", "M107", "M206", "M400", "IGNORE", "G21",
            "M110", "M21", "QUERY_ENDSTOPS", "M119", "PID_TUNE", "M303",
            "SET_SERVO", "RESTART", "FIRMWARE_RESTART", "ECHO", "STATUS",
            "HELP"} |->
        CASE v = "G0" -> "G1"
          [] v = "M84" -> "M18"
          [] v \in {"G21", "M110", "M21"} -> "IGNORE"
          [] v = "M119" -> "QUERY_ENDSTOPS"
          [] v = "M303" -> "PID_TUNE"
          [] OTHER -> v]

\* C6: the registry is what the table gives for the current readiness: the
\* nine verbs allowed when not ready and their aliases while NotReady, every
\* verb and alias while Ready, an alias on the handler of its verb; no
\* motion verb and no M112 is registered while NotReady.
C6_Registry ==
    /\ gc.gcode_handlers = IF gc.is_printer_ready THEN ReadyRegistry
                           ELSE NotReadyRegistry
    /\ ~gc.is_printer_ready
       => DOMAIN gc.gcode_handlers
          \cap {"G0", "G1", "G4", "G28", "G92", "M18", "M84", "M112"} = {}

\* C6 happens: a notification took the parser from Ready to NotReady
C6_Witness ==
    /\ ev.kind = "set_printer_ready"
    /\ ev.info = FALSE
    /\ ev.pre.is_printer_ready
    /\ "G1" \in DOMAIN ev.pre.gcode_handlers

\* The step dispatched a line whose verb the registry did not hold
UnknownVerb ==
    /\ ev.kind = "dispatch"
    /\ ev.info.prm.has_parts
    /\ ev.info.prm.command \notin DOMAIN ev.pre.gcode_handlers

IsToolVerb(cmd) == Len(cmd) > 1 /\ Ch(cmd, 1) = "T" /\ Ch(cmd, 2) \in Digits

\* The coordinate state of the parser
Coord(s) == <<s.last_position, s.base_position, s.homing_add, s.speed,
              s.absolutecoord, s.absoluteextrude>>

Logged(level) == {e[2] : e \in {x \in Range(gc.log) : x[1] = level}}

\* C7: a verb the registry does not hold goes to the catch-all.  Ready: an
\* "Unknown command" info reply, unless the verb is T and a digit, which is
\* handled as a tool change.  NotReady: for every such verb, motion verbs and
\* T<digit> included, the error reply with the printer's state message, no
\* change of the coordinate state and no collaborator called.
C7_CatchAll ==
    UnknownVerb
    => /\ ev.info.h = "default"
       /\ ev.pre.is_printer_ready /\ ~IsToolVerb(ev.info.prm.command)
          => /\ Logged("debug") = {"Unknown command:\"" \o ev.info.prm.command \o "\""}
             /\ Logged("warning") = {}
             /\ ~gc.is_fileinput
                => gc.out[1] = "// Unknown command:\"" \o ev.info.prm.command \o "\"\n"
       /\ ev.pre.is_printer_ready /\ IsToolVerb(ev.info.prm.command)
          => /\ \A m \in Logged("debug") : SubSeq(m, 1, 7) # "Unknown"
             /\ \/ ev.info.flow = "suspend"
                \/ Logged("warning") # {}
                \/ Fresh(gc).extruder = ev.pre.extruder
       /\ ~ev.pre.is_printer_ready
          => /\ Logged("warning") = {get_state_message(ev.pre)}
             /\ ~gc.is_fileinput
                => "!! Printer is not ready\n" \in Range(gc.out)
             /\ Coord(gc) = Coord(ev.pre)
             /\ gc.calls = <<>>
             /\ ev.info.flow = "continue"

\* C7 happens: a move is refused while NotReady
C7_Witness ==
    /\ UnknownVerb
    /\ ~ev.pre.is_printer_ready
    /\ ev.info.prm.command = "G1"
    /\ "X" \in DOMAIN ev.info.prm.p
    /\ Logged("warning") # {}

\* The step dispatched a line to the move handler
MoveStep == ev.kind = "dispatch" /\ ev.info.prm.has_parts /\ ev.info.h = "G1"

Given(a) == a \in DOMAIN ev.info.prm.p
Value(a) == float(ev.info.prm.p[a])

\* Every parameter of the move parses, the feed rate to a speed above zero
AllParse ==
    /\ \A p \in 1..4 : Given(AxisNames[p]) => IsNumber(ev.info.prm.p[AxisNames[p]])
    /\ Given("F") => IsNumber(ev.info.prm.p["F"]) /\ Value("F") > 0

Moves == SelectSeq(gc.calls, LAMBDA c : c[1] = "move")

\* pos is what the move asks of the linear axes, from the state before
LinearTarget(pos) ==
    \A p \in 1..3 :
        pos[p] = IF ~Given(AxisNames[p]) THEN ev.pre.last_position[p]
                 ELSE IF ev.pre.absolutecoord
                      THEN fadd(ev.pre.base_position[p], Value(AxisNames[p]))
                      ELSE fadd(ev.pre.last_position[p], Value(AxisNames[p]))

\* C8 as stated: after a move whose parameters all parse, last_position is
\* base + value (absolute) or previous + value (relative) on every linear
\* axis given and unchanged on the others, base_position and the home offset
\* are unchanged, and exactly one move is issued, with the resulting
\* last_position and the feed speed.
C8_MoveAlways ==
    (MoveStep /\ AllParse)
    => /\ LinearTarget(gc.last_position)
       /\ ~Given("E") => gc.last_position[4] = ev.pre.last_position[4]
       /\ gc.base_position = ev.pre.base_position
       /\ gc.homing_add = ev.pre.homing_add
       /\ Moves = <<<<"move", gc.last_position, gc.speed>>>>

\* C8: after a move whose parameters all parse, exactly one move is issued,
\* with the feed speed and a target that is base + value (absolute) or
\* previous + value (relative) on every linear axis given and the previous
\* value on the others; base_position and the home offset are unchanged.
\* last_position is that target if the toolhead accepts the move; if the
\* toolhead refuses it, the error is reported and last_position is the
\* toolhead's position.
C8_MoveAccepted ==
    (MoveStep /\ AllParse)
    => /\ Len(Moves) = 1
       /\ Moves[1][3] = gc.speed
       /\ LinearTarget(Moves[1][2])
       /\ ~Given("E") => Moves[1][2][4] = ev.pre.last_position[4]
       /\ gc.base_position = ev.pre.base_position
       /\ gc.homing_add = ev.pre.homing_add
       /\ IF ev.info.o.fault
          THEN /\ gc.last_position = ev.pre.th_position
               /\ gc.th_position = ev.pre.th_position
               /\ Logged("warning") = {EndstopMsg}
          ELSE /\ gc.last_position = Moves[1][2]
               /\ gc.th_position = Moves[1][2]
               /\ Logged("warning") = {}

\* C8 happens: an absolute move on X with a base position set is accepted,
\* Y is not given
C8_Witness ==
    /\ MoveStep /\ AllParse
    /\ ~ev.info.o.fault
    /\ ev.pre.absolutecoord
    /\ Given("X") /\ ~Given("Y")
    /\ ev.pre.base_position[1] # 0
    /\ gc.last_position[1] = fadd(ev.pre.base_position[1], Value("X"))
    /\ gc.last_position # ev.pre.last_position

\* The step dispatched a line to one of the mode handlers; only the field
\* named changed
OnlyChanged(field) ==
    Fresh([gc EXCEPT ![field] = ev.pre[field], !.need_ack = ev.pre.need_ack])
    = ev.pre

ModeToggles ==
    ev.kind = "dispatch" /\ ev.info.prm.has_parts
    => /\ ev.info.h = "G90" => gc.absolutecoord /\ OnlyChanged("absolutecoord")
       /\ ev.info.h = "G91" => ~gc.absolutecoord /\ OnlyChanged("absolutecoord")
       /\ ev.info.h = "M82" => gc.absoluteextrude /\ OnlyChanged("absoluteextrude")
       /\ ev.info.h = "M83" => ~gc.absoluteextrude /\ OnlyChanged("absoluteextrude")

\* C9 as stated: in an accepted move E is taken by absolute_extrusion alone,
\* whatever absolute_position is; G90 / G91 change only absolute_position,
\* M82 / M83 only absolute_extrusion.
C9_OwnFlag ==
    /\ (MoveStep /\ AllParse /\ Given("E") /\ ~ev.info.o.fault)
       => gc.last_position[4] =
            IF ev.pre.absoluteextrude
            THEN fadd(ev.pre.base_position[4], Value("E"))
            ELSE fadd(ev.pre.last_position[4], Value("E"))
    /\ ModeToggles

\* C9: in an accepted move E is absolute (base + value) only when both
\* absolute_position and absolute_extrusion are set, and relative (previous
\* + value) when either is clear; X, Y, Z follow absolute_position alone.
\* G90 / G91 change only absolute_position, M82 / M83 only
\* absolute_extrusion.
C9_BothFlags ==
    /\ (MoveStep /\ AllParse /\ Given("E") /\ ~ev.info.o.fault)
       => /\ gc.last_position[4] =
               IF ev.pre.absolutecoord /\ ev.pre.absoluteextrude
               THEN fadd(ev.pre.base_position[4], Value("E"))
               ELSE fadd(ev.pre.last_position[4], Value("E"))
          /\ LinearTarget(gc.last_position)
    /\ ModeToggles

\* C9 happens: E is given in an accepted move with absolute_position clear
\* and absolute_extrusion set, where the two readings differ
C9_Witness ==
    /\ MoveStep /\ AllParse /\ Given("E") /\ ~ev.info.o.fault
    /\ ~ev.pre.absolutecoord /\ ev.pre.absoluteextrude
    /\ ev.pre.base_position[4] # ev.pre.last_position[4]
    /\ gc.last_position[4] = fadd(ev.pre.last_position[4], Value("E"))

\* C10: the feed speed is above zero at all times.  A move whose F is a
\* number not above zero is rejected with the parse error reply: the speed is
\* unchanged, no move is issued, and last_position is the toolhead's position.
C10_FeedPositive ==
    /\ gc.speed > 0
    /\ (MoveStep /\ Given("F") /\ IsNumber(ev.info.prm.p["F"]) /\ Value("F") <= 0)
       => /\ Logged("warning") = {"Unable to parse move '" \o ev.info.prm.original \o "'"}
          /\ ~gc.is_fileinput
             => gc.out = <<"!! Unable to parse move '" \o ev.info.prm.original \o "'\n",
                           "ok\n">>
          /\ gc.speed = ev.pre.speed
          /\ Moves = <<>>
          /\ gc.last_position = gc.th_position
          /\ gc.th_position = ev.pre.th_position

\* C10 happens: a move with F0 and a valid X is rejected after a feed rate
\* was set, and X stays where the toolhead is
C10_Witness ==
    /\ MoveStep /\ Given("F") /\ IsNumber(ev.info.prm.p["F"]) /\ Value("F") <= 0
    /\ Given("X") /\ IsNumber(ev.info.prm.p["X"])
    /\ gc.speed # InitSpeed
    /\ gc.last_position = gc.th_position
    /\ gc.last_position[1] # fadd(ev.pre.base_position[1], Value("X"))


\* The step dispatched a line to the handler named h
HandlerStep(h) == ev.kind = "dispatch" /\ ev.info.prm.has_parts /\ ev.info.h = h

GivenAxes == {p \in 1..4 : Given(AxisNames[p])}
AxesParse == \A p \in GivenAxes : IsNumber(ev.info.prm.p[AxisNames[p]])

\* C11: G92 without axes makes base_position equal to last_position on the
\* four axes, as a list of its own (base_position is never the list of
\* last_position, and a move leaves base_position as it was); with axes,
\* base_position is last_position minus the value on the axes given and
\* unchanged on the others.  G92 never changes last_position or the home
\* offset, and if a value given does not parse, base_position is unchanged.
C11_SetPosition ==
    /\ HandlerStep("G92")
       => /\ gc.last_position = ev.pre.last_position
          /\ gc.homing_add = ev.pre.homing_add
          /\ IF ~AxesParse
             THEN /\ gc.base_position = ev.pre.base_position
                  /\ Logged("warning") # {}
             ELSE IF GivenAxes = {}
             THEN gc.base_position = ev.pre.last_position
             ELSE \A p \in 1..4 :
                    gc.base_position[p] =
                        IF p \in GivenAxes
                        THEN fsub(ev.pre.last_position[p], Value(AxisNames[p]))
                        ELSE ev.pre.base_position[p]
    /\ ~gc.base_is_last
    /\ MoveStep => gc.base_position = ev.pre.base_position

\* C11 happens: G92 without axes where base_position was not last_position
C11_Witness ==
    /\ HandlerStep("G92")
    /\ GivenAxes = {}
    /\ ev.pre.base_position # ev.pre.last_position
    /\ gc.base_position = gc.last_position


\* base_position[p] + home_offset[p] in s
OffsetSum(s, p) == s.base_position[p] + s.homing_add[p]

\* The home offsets M206 is given, when they parse
M206Sets ==
    /\ HandlerStep("M206")
    /\ AxesParse
    /\ gc.last_position = ev.pre.last_position
    /\ \A p \in GivenAxes : gc.homing_add[p] = Value(AxisNames[p])

ToolChange ==
    /\ UnknownVerb
    /\ IsToolVerb(ev.info.prm.command)
    /\ ev.pre.is_printer_ready
    /\ ev.pre.extruder # 0
    /\ get_int("T", ev.info.prm, FALSE, 0).ok

\* The extruder T<n> names, 0 if none is configured at that index
ToolNamed ==
    LET n == get_int("T", ev.info.prm, FALSE, 0).v
        extruders == get_printer_extruders(ev.pre)
    IN  IF n >= 0 /\ n < Len(extruders) THEN extruders[n + 1] ELSE 0

\* C13: T<n> naming the active extruder does nothing: the handler returns
\* at once (no macro is started), no collaborator is called (no
\* set_extruder), nothing is logged or replied but the ack, and the active
\* extruder, the toolhead's extruder, the positions, the home offset, the
\* speed and the two mode flags are as before.
C13_SameTool ==
    ToolChange /\ ToolNamed = ev.pre.extruder
    => /\ ev.info.flow = "continue"
       /\ gc.calls = <<>>
       /\ gc.log = <<>>
       /\ Range(gc.out) \subseteq {"ok\n"}
       /\ gc.extruder = ev.pre.extruder
       /\ gc.th_extruder = ev.pre.th_extruder
       /\ gc.th_position = ev.pre.th_position
       /\ Coord(gc) = Coord(ev.pre)

\* C13 happens: T1 once the second extruder is the active one
C13_Witness ==
    /\ ToolChange
    /\ ToolNamed = ev.pre.extruder
    /\ ev.pre.extruder # get_printer_extruders(ev.pre)[1]
    /\ gc.out = <<"ok\n">>


\* w is an acknowledgement: "ok\n" or "ok <text>\n"
IsAck(w) == w = "ok\n" \/ (Len(w) > 3 /\ SubSeq(w, 1, 3) = "ok ")

\* The acknowledgements written in the step
Acks == SelectSeq(gc.out, IsAck)

\* C14: in replay mode no step writes an acknowledgement.  In interactive
\* mode a line of a batch that holds a command gets exactly one: in the step
\* that dispatches it when its handler returns or raises there, as the last
\* thing written (after the error reply), and none in that step when the
\* handler suspends, then "ok" in the step where the handler has returned.
\* It is "ok", or "ok <text>" for M105 and M115.  A line of a tool-change
\* macro gets none, when dispatched or when its handler returns, and no other
\* step (a read with the out-of-band M112 included) writes one.
C14_OneAck ==
    /\ gc.is_fileinput => Acks = <<>>
    /\ ~gc.is_fileinput /\ ev.kind = "dispatch" /\ ev.info.prm.has_parts
       => IF ~ev.info.batch \/ ev.info.flow = "suspend"
          THEN Acks = <<>>
          ELSE /\ Len(Acks) = 1
               /\ gc.out[Len(gc.out)] = Acks[1]
               /\ ev.info.h \notin {"M105", "M115"} => Acks = <<"ok\n">>
               /\ ev.info.h \in {"M105", "M115"} => Acks # <<"ok\n">>
    /\ ~gc.is_fileinput /\ ev.kind = "return"
       => gc.out = IF ev.info THEN <<"ok\n">> ELSE <<>>
    /\ ev.kind \notin {"dispatch", "return"} => Acks = <<>>

\* C14 happens: a tool change read from the channel, its macros run, is
\* acknowledged when its handler has returned
C14_Witness ==
    /\ ev.kind = "return"
    /\ ev.info
    /\ IsToolVerb(ParseLine(ev.line).command)
    /\ gc.out = <<"ok\n">>


\* What is left of a line without its comment and the blanks around
Body(line) ==
    LET l == strip(line)
        c == find(l, ";")
    IN  strip(IF c > 0 THEN SubSeq(l, 1, c - 1) ELSE l)

\* The line is N and digits, nothing else
NumberOnly(line) ==
    LET b == Body(line)
    IN  /\ Len(b) > 1
        /\ UpperCh(Ch(b, 1)) = "N"
        /\ \A i \in 2..Len(b) : Ch(b, i) \in Digits

\* The step dispatched a line that is blank, a comment or a line number only
NoCommandStep ==
    ev.kind = "dispatch" /\ (Body(ev.line) = "" \/ NumberOnly(ev.line))

StateMessageReply ==
    <<"// Please retry in a few moments\n", "!! Printer is not ready\n">>

\* C15 as stated: such a line writes no error reply, whatever the readiness,
\* and changes no coordinate state.
C15_NoError ==
    NoCommandStep
    => /\ \A i \in 1..Len(gc.out) : SubSeq(gc.out[i], 1, 2) # "!!"
       /\ Coord(gc) = Coord(ev.pre)

\* C15: a line that is blank, a comment or a line number only goes to
\* cmd_default with no command (the registry is not asked, the loop goes on
\* without an ack), calls no collaborator and changes no coordinate state.
\* While Ready it writes nothing and is logged at debug level; while
\* NotReady cmd_default reports the printer's state message as an error
\* (logged, and replied in interactive mode).
C15_NoCommand ==
    NoCommandStep
    => /\ ~ev.info.prm.has_parts
       /\ ev.info.flow = "continue"
       /\ gc.calls = <<>>
       /\ Coord(gc) = Coord(ev.pre)
       /\ gc.need_ack = ev.pre.need_ack
       /\ IF ev.pre.is_printer_ready
          THEN gc.out = <<>> /\ gc.log = <<<<"debug", ev.info.prm.original>>>>
          ELSE /\ gc.out = IF gc.is_fileinput THEN <<>> ELSE StateMessageReply
               /\ Logged("warning") # {}

\* C15 happens: a line number alone, dispatched while NotReady
C15_Witness ==
    /\ NoCommandStep
    /\ NumberOnly(ev.line)
    /\ ~ev.pre.is_printer_ready
    /\ gc.out = StateMessageReply


\* The error replies written in the step
IsErrorReply(w) == Len(w) > 2 /\ SubSeq(w, 1, 2) = "!!"
ErrorReplies == SelectSeq(gc.out, IsErrorReply)

\* The errors reported in the step (respond_error logs each as a warning)
Warnings == SelectSeq(gc.log, LAMBDA e : e[1] = "warning")

\* How the handler of the line dispatched came back: "none", "error" (the
\* command error), "other" (any other exception)
Raised == RunHandler(ev.info.h, ev.pre, ev.info.prm, ev.info.o).exc

\* The lines of the batch not yet dispatched, after the step's line
LinesLeft == Len(Top(tasks[TaskIx(ev.id)]).lines)

InternalError ==
    "!! Internal error on command:\"" \o ev.info.prm.command \o "\"\n"

\* C16: a handler that raises the command error gets exactly one error
\* reply, without force_shutdown, and the loop goes on with the lines left
\* of the batch.  A handler that raises anything else gets force_shutdown
\* and the "Internal error on command" reply with the verb; in replay mode
\* exit is then requested and no line of the batch is left to dispatch, in
\* interactive mode the loop goes on.  When process_data is over the guard
\* is clear.
C16_Classified ==
    /\ ev.kind = "dispatch" /\ ev.info.prm.has_parts /\ Raised = "error"
       => /\ gc.is_fileinput \/ Len(ErrorReplies) = 1
          /\ Len(Warnings) = 1
          /\ ~ForcedShutdown
          /\ gc.exit = ev.pre.exit
          /\ ev.info.flow = "continue"
    /\ ev.kind = "dispatch" /\ ev.info.prm.has_parts /\ Raised = "other"
       => /\ ForcedShutdown
          /\ gc.is_fileinput \/ InternalError \in Range(gc.out)
          /\ IF gc.is_fileinput
             THEN gc.exit /\ ev.info.flow = "break" /\ LinesLeft = 0
             ELSE gc.exit = ev.pre.exit /\ ev.info.flow = "continue"
    /\ ev.kind = "dispatch" /\ ev.info.flow = "continue" /\ ev.info.batch
       => LET d == dispatched[Len(dispatched)]
          IN  LinesLeft = d[3] - d[2]
    /\ ev.kind = "end_data" => ~gc.is_processing_data


\* The heater index PID_TUNE is given (E, 0 when absent), when it parses
TuneIndex == get_int("E", ev.info.prm, TRUE, 0)

\* The index is out of range or names a heater that is not configured
Unconfigured(i) ==
    \/ i < 0 - 1
    \/ i >= Len(ev.pre.heaters) - 1
    \/ heater_at(ev.pre, i) = "None"

TuneCalls == SelectSeq(gc.calls, LAMBDA c : c[1] = "start_auto_tune")

\* C17: PID_TUNE with a heater index that is out of range or names no
\* configured heater reports "Heater not configured" and nothing else
\* happens: no start_auto_tune, no wait in bg_temp, no force_shutdown, no
\* other error.  With a configured index and a temperature that parses,
\* start_auto_tune is called once, on that heater.
C17_ConfigError ==
    HandlerStep("PID_TUNE") /\ TuneIndex.ok
    => IF Unconfigured(TuneIndex.v)
       THEN /\ Warnings = <<<<"warning", "Heater not configured">>>>
            /\ gc.calls = <<>>
            /\ ev.info.flow = "continue"
            /\ ~gc.exit
       ELSE get_float("S", ev.info.prm, FALSE, 0).ok
            => TuneCalls = <<<<"start_auto_tune", heater_at(ev.pre, TuneIndex.v),
                              get_float("S", ev.info.prm, FALSE, 0).v>>>>


\* The linear axes G28 is asked to home
HomeTarget ==
    IF GivenAxes \cap 1..3 = {} THEN {1, 2, 3} ELSE GivenAxes \cap 1..3

\* The axes the homing of the step moved
Homed == get_axes(HomeTarget, ev.info.o)

\* C18: G28 asks the toolhead to home the linear axes named on the line, or
\* X, Y and Z when none is named.  On an endstop fault the motors are
\* switched off, the error is reported (replied in interactive mode), and
\* last_position and base_position are as before.  On success
\* last_position of every axis homed is the toolhead's position and
\* base_position is minus the home offset; the other axes, E always among
\* them, keep both.  The home offset, the speed and the mode flags are
\* unchanged either way.
C18_Home ==
    HandlerStep("G28")
    => /\ gc.calls[1] = <<"home", HomeTarget, gc.is_fileinput>>
       /\ 4 \notin Homed
       /\ gc.homing_add = ev.pre.homing_add
       /\ gc.speed = ev.pre.speed
       /\ gc.absolutecoord = ev.pre.absolutecoord
       /\ gc.absoluteextrude = ev.pre.absoluteextrude
       /\ IF ev.info.o.fault
          THEN /\ gc.calls = <<gc.calls[1], <<"motor_off">>>>
               /\ Warnings = <<<<"warning", EndstopMsg>>>>
               /\ gc.is_fileinput \/ Len(ErrorReplies) = 1
               /\ gc.last_position = ev.pre.last_position
               /\ gc.base_position = ev.pre.base_position
          ELSE /\ Warnings = <<>>
               /\ \A p \in 1..4 :
                    IF p \in Homed
                    THEN /\ gc.last_position[p] = gc.th_position[p]
                         /\ gc.base_position[p] = 0 - ev.pre.homing_add[p]
                    ELSE /\ gc.last_position[p] = ev.pre.last_position[p]
                         /\ gc.base_position[p] = ev.pre.base_position[p]

\* C18 happens: G28 of one axis named, with a home offset, succeeds and
\* moves last_position and base_position of that axis and of no other
C18_Witness ==
    /\ HandlerStep("G28")
    /\ ~ev.info.o.fault
    /\ Homed = {2}
    /\ ev.pre.homing_add[2] # 0
    /\ gc.last_position[2] # ev.pre.last_position[2]
    /\ gc.base_position[2] # ev.pre.base_position[2]
    /\ gc.last_position[1] = ev.pre.last_position[1]
    /\ gc.last_position[1] # ev.info.o.at


\* The stack of the task that holds control
Stack == IF running = 0 THEN <<>> ELSE tasks[TaskIx(running)].stack

\* cmd_Tn is the call on top: no macro of it is running
TnOnTop == Stack # <<>> /\ Stack[Len(Stack)].k = "cmd_Tn"

\* On top is the process_commands of a macro of cmd_Tn
MacroOnTop ==
    /\ Len(Stack) > 1
    /\ Stack[Len(Stack)].k = "process_commands"
    /\ Stack[Len(Stack) - 1].k = "cmd_Tn"

\* The lines of the macro cmd_Tn runs before the switch (the deactivate
\* g-code of the active extruder) or after it (the activate g-code of the
\* extruder switched to)
MacroLines(tn) ==
    split_nl(IF tn.busy THEN get_activate_gcode(gc, tn.arg, TRUE)
             ELSE get_activate_gcode(gc, gc.extruder, FALSE))

SetExtruderCalls == SelectSeq(gc.calls, LAMBDA c : c[1] = "set_extruder")

\* One step of a tool change to another extruder, in its order
TnOrder ==
    \* T<n> naming another configured extruder starts the deactivate g-code
    \* of the active one, nothing switched yet
    /\ (ToolChange /\ ToolNamed \notin {0, ev.pre.extruder})'
       => /\ MacroOnTop'
          /\ Stack'[Len(Stack')].lines
             = split_nl(get_activate_gcode(gc, gc.extruder, FALSE))
          /\ Stack'[Len(Stack')].done = 0
          /\ Stack'[Len(Stack') - 1].arg = ToolNamed'
          /\ ~Stack'[Len(Stack') - 1].busy
          /\ gc'.calls = <<>>
          /\ gc'.extruder = gc.extruder
          /\ gc'.last_position = gc.last_position
    \* the lines of a macro are dispatched one after the other, and no line
    \* switches the extruder
    /\ MacroOnTop /\ ev'.kind \in {"dispatch", "return", "end_commands"}
       => LET f == Stack[Len(Stack)]
              all == MacroLines(Stack[Len(Stack) - 1])
          IN  /\ f.lines = SubSeq(all, f.done + 1, Len(all))
              /\ SetExtruderCalls' = <<>>
              /\ gc'.extruder = gc.extruder
              /\ ev'.kind = "dispatch" => ev'.line = Head(f.lines)
              \* the macro is left when all its lines were dispatched
              /\ ev'.kind = "end_commands"
                 => /\ f.done = Len(all)
                    /\ Stack' = SubSeq(Stack, 1, Len(Stack) - 1)
    \* cmd_Tn goes on only when its macro is over
    /\ ev'.kind = "cmd_Tn" /\ ev' # ev => TnOnTop
    \* the switch, after the deactivate g-code: set_extruder, then the
    \* reference and last_position, then the activate g-code is started; on
    \* an endstop fault the error is reported, nothing is written and cmd_Tn
    \* returns
    /\ TnOnTop /\ ~Stack[Len(Stack)].busy /\ ev'.kind = "cmd_Tn"
       => LET e == Stack[Len(Stack)].arg
          IN  IF ev'.info.ok
              THEN /\ gc'.calls = <<<<"set_extruder", e>>, <<"get_position">>>>
                   /\ gc'.extruder = e
                   /\ gc'.th_extruder = e
                   /\ gc'.last_position = gc'.th_position
                   /\ Warnings' = <<>>
                   /\ MacroOnTop'
                   /\ Stack'[Len(Stack') - 1].busy
                   /\ Stack'[Len(Stack')].lines
                      = split_nl(get_activate_gcode(gc, e, TRUE))
                   /\ Stack'[Len(Stack')].done = 0
              ELSE /\ gc'.calls = <<<<"set_extruder", e>>>>
                   /\ Warnings' = <<<<"warning", EndstopMsg>>>>
                   /\ gc'.is_fileinput \/ ErrorReplies' = <<"!! " \o EndstopMsg \o "\n">>
                   /\ gc'.extruder = gc.extruder
                   /\ gc'.th_extruder = gc.th_extruder
                   /\ Coord(gc') = Coord(gc)
                   /\ Stack' = SubSeq(Stack, 1, Len(Stack) - 1)
    \* after the activate g-code cmd_Tn returns
    /\ TnOnTop /\ Stack[Len(Stack)].busy /\ ev'.kind = "cmd_Tn"
       => /\ gc' = Fresh(gc)
          /\ Stack' = SubSeq(Stack, 1, Len(Stack) - 1)

\* C19: a tool change to another configured extruder goes in this order:
\* the lines of the active extruder's deactivate g-code are all dispatched,
\* then set_extruder is called, then the extruder reference is set and
\* last_position is read back from the toolhead, then the lines of the new
\* extruder's activate g-code are all dispatched.  If set_extruder raises
\* an endstop fault the error is reported, the extruder reference, the
\* positions and the flags stay as the deactivate g-code left them, and the
\* activate g-code is not run.
C19_Order == [][TnOrder]_vars

\* C19 happens: the extruder was switched after a deactivate g-code of two
\* lines, last_position was read back, and the activate g-code is to run
C19_Witness ==
    /\ ev.kind = "cmd_Tn"
    /\ MacroOnTop
    /\ Stack[Len(Stack)].lines = <<"G92 E0">>
    /\ gc.extruder # ev.pre.extruder
    /\ Len(split_nl(get_activate_gcode(gc, ev.pre.extruder, FALSE))) = 2
    /\ gc.calls = <<<<"set_extruder", gc.extruder>>, <<"get_position">>>>


\* The tasks whose handler is suspended in bg_temp
InBgTemp == {i \in 1..Len(tasks) : Top(tasks[i]).k = "bg_temp"}

\* The step dispatched M109 or M190 and the heater took the temperature
WaitTemp ==
    /\ HandlerStep("M109") \/ HandlerStep("M190")
    /\ \E c \in Range(gc.calls) : c[1] = "set_temp"

\* C20: in interactive mode M109 / M190, once the heater has the target,
\* suspends in bg_temp when the heater is busy (the printer is Ready) and
\* returns at once when it is not; in replay mode it never suspends.  While
\* it is suspended it has not returned and is not acked, the line last
\* dispatched of its batch is its own, the guard is held, and control is
\* with the reactor, which reads the channel until a batch read is waiting.
\* Each time bg_temp is resumed it goes on waiting, with a temperature
\* report, exactly if the printer is Ready and the heater busy; else the
\* handler returns to process_commands.
C20_Blocking ==
    /\ WaitTemp
       => IF gc.is_fileinput THEN ev.info.flow = "continue"
          ELSE IF ev.info.o.busy /\ ev.pre.is_printer_ready
          THEN /\ ev.info.flow = "suspend"
               /\ TaskIx(ev.id) \in InBgTemp
               /\ gc.out = <<get_temp(gc) \o "\n">>
          ELSE ev.info.flow = "continue" /\ Len(Acks) = 1
    /\ \A i \in InBgTemp :
         LET t == tasks[i]
             f == t.stack[Len(t.stack) - 1]
         IN  /\ ~gc.is_fileinput
             /\ running = 0
             /\ Acks = <<>>
             /\ gc.is_processing_data
             /\ f.k = "process_commands" /\ f.busy
             /\ f.arg => dispatched[Len(dispatched)]
                         = <<t.id, f.done + 1, f.done + Len(f.lines)>>
             /\ gc.fd_handle \/ \E j \in 1..Len(tasks) : IsWaiting(tasks[j].id)
    /\ ev.kind = "bg_temp"
       => /\ ev.info.waits <=> (ev.pre.is_printer_ready /\ ev.info.o.busy)
          /\ IF ev.info.waits
             THEN /\ TaskIx(ev.id) \in InBgTemp
                  /\ gc.out = <<get_temp(gc) \o "\n">>
             ELSE /\ running = ev.id
                  /\ Top(tasks[TaskIx(ev.id)]).k = "process_commands"
                  /\ Top(tasks[TaskIx(ev.id)]).busy
                  /\ gc.out = <<>>

\* C20 happens: the channel is read while M190 waits for the bed heater
C20_Witness ==
    /\ ev.kind = "read"
    /\ \E i \in InBgTemp :
         LET t == tasks[i]
         IN  /\ ParseLine(Head(t.stack[Len(t.stack) - 1].lines)).command = "M190"
             /\ Len(t.stack[Len(t.stack) - 1].lines) > 1
    /\ \E j \in 1..Len(tasks) : IsWaiting(tasks[j].id)

\* The reactor runs the timer of a waiting batch (reactor.pause of line 140
\* returns after 0.1 s)
LiveSpec == Spec /\ WF_vars(Wake)

\* The batches waiting on the guard, and those in process_commands
WaitingBatches == {i \in 1..Len(tasks) : IsWaiting(tasks[i].id)}
InFlight == {i \in 1..Len(tasks) : tasks[i].stack[1].busy}

GuardState ==
    ~gc.is_fileinput
    => /\ gc.fd_handle <=> WaitingBatches = {}
       /\ Cardinality(WaitingBatches) <= 1
       /\ Cardinality(InFlight) <= 1
       /\ gc.is_processing_data <=> InFlight # {}
       /\ ev.kind = "wake"
          => /\ gc.fd_handle
             /\ TaskIx(ev.id) \in InFlight
             /\ \A k \in 1..Len(dispatched) : dispatched[k][1] # ev.id

\* C21: in interactive mode the read source is unregistered exactly while a
\* batch waits on the guard; at most one batch waits and at most one is in
\* process_commands; the guard is set exactly while a batch is in
\* process_commands; a waiting batch gets the read source registered again
\* before any of its lines is dispatched; and once the batch in progress is
\* over, the waiting batch goes to process_commands.
C21_Guard ==
    /\ []GuardState
    /\ (~gc.is_fileinput /\ WaitingBatches # {} /\ InFlight = {})
       ~> (WaitingBatches = {})

\* C21 happens: a batch that waited behind a suspended handler takes the
\* guard, the read source registered again
C21_Witness ==
    /\ ev.kind = "wake"
    /\ ~gc.is_fileinput
    /\ ~ev.pre.fd_handle
    /\ gc.fd_handle
    /\ Len(tasks) = 1


\* The step dispatched, as the first line of a batch that had waited on the
\* guard in interactive mode, an M112 line: the line process_data handled
\* out of band when it read the batch
SecondM112 ==
    /\ ev.kind = "dispatch"
    /\ ev.info.batch
    /\ ~gc.is_fileinput
    /\ is_M112(ev.line)
    /\ dispatched[Len(dispatched)][2] = 1
    /\ \E i \in 1..Len(tasks) : tasks[i].id = ev.id /\ tasks[i].waited

\* C22: an M112 line handled out of band stays the first line of its
\* waiting batch.  When the batch goes to process_commands the line is
\* dispatched with the registry of that moment: while Ready cmd_M112 runs
\* (force_shutdown, a second time), while NotReady cmd_default replies the
\* state message as an error; either way the line is acked once.
C22_SecondM112 ==
    /\ (ReadWhileBusy /\ ~gc.is_fileinput /\ FirstLineText = "M112")
       => /\ ForcedShutdown
          /\ \E i \in 1..Len(tasks) :
                /\ tasks[i].id = ev.id
                /\ IsWaiting(ev.id)
                /\ Top(tasks[i]).lines = ev.info.lines
    /\ SecondM112
       => /\ ev.info.flow = "continue"
          /\ Acks = <<"ok\n">>
          /\ IF ev.pre.is_printer_ready
             THEN /\ ev.info.h = "M112"
                  /\ gc.calls = <<<<"force_shutdown">>>>
                  /\ gc.out = <<"ok\n">>
             ELSE /\ ev.info.h = "default"
                  /\ gc.calls = <<>>
                  /\ gc.out = StateMessageReply \o <<"ok\n">>

\* C22 happens: the M112 line of a batch that waited is dispatched after the
\* printer became NotReady
C22_Witness ==
    /\ SecondM112
    /\ ~ev.pre.is_printer_ready
    /\ gc.out = StateMessageReply \o <<"ok\n">>

====
